---- MODULE Spec2Model ----
(***************************************************************************)
(* A model of mgijax/lib_py_postgres: the connection manager of            *)
(* dbManager.py (connection acquisition with retries, execute / commit /   *)
(* rollback on the shared connection, result shaping) and the pg_db.py     *)
(* wrapper (the SQL translators and the batch runner sql()).               *)
(*                                                                         *)
(* Text is modelled as a sequence of one-character strings, so that        *)
(* str.find, str.replace, slicing and the regular expressions of the       *)
(* source are computed character by character, as Python computes them.   *)
(* Positions are Python's: 0-based, a slice s[a:b] excludes b.             *)
(***************************************************************************)
EXTENDS Integers, Sequences, FiniteSets, TLC

VARIABLES
    \* postgresManager._getConnection (dbManager.py 249-298)
    driverLoaded,   \* LOADED_POSTGRES_DRIVER
    gcPc,           \* position inside _getConnection
    attempts,       \* local 'attempts'
    delay,          \* local 'delay', in tenths of a second
    conn,           \* local 'conn': 0 is None, otherwise a connection
    excValue,       \* name of the error text of the last failed connect
    gcErr,          \* the exception _getConnection raised, or NoError
    gcTrace,        \* connect attempts and sleeps, in order
    \* dbManager objects (dbManager.py 62-232)
    managers,       \* the managers constructed so far, each a record of its fields
    conns,          \* the connections opened so far: owner and whether still open
    calls,          \* the calls made so far, with what each issued and returned
    \* a call of translate or translate_be (pg_db.py 89-362)
    trIn,           \* the statement text given
    trFn,           \* the function called
    trPc,           \* "call" before the call, "done" after it
    trCmd3,         \* the text 'cmd3' given to the select-list rewrite of translate
    trOut,          \* what the call returned or raised
    \* the module pg_db and a call of sql (pg_db.py 47-52, 571-649)
    onlyOneConnection,  \* global 'onlyOneConnection'
    sharedDbManager,    \* global 'sharedDbManager': 0 is None, otherwise a manager
    returnAsSybase,     \* global 'returnAsSybase'
    sqlPc,          \* "ready" between calls, "loop" inside the loop of sql
    sqlArgs,        \* the arguments of the last sql call
    sqlLocals,      \* the local variables of the sql call
    sqlLog,         \* what the last call handed to execute and to callbacks, in order
    sqlOut,         \* what the last call returned or raised
    pgCalls,        \* the number of calls made so far, mode switches not counted
    targetDatabaseType, \* global 'targetDatabaseType'
    pgHistory,      \* the sql and executeCopyFrom calls so far: mode and manager used
    pending,        \* the connections with a statement executed since their last commit
    \* a row projection (dbManager.py 322-368)
    mgiRow,         \* the MGIDict that result shaping built for a row
    rowLog,         \* the lookups made on it so far, each with what it gave
    \* stats_pg.measureAllHavingSql (stats_pg.py 985-1024)
    statsPc,        \* "ready", in the "loop", or "done"
    abbreviations,  \* what getAllAbbrev returned
    statsI,         \* how many abbreviations the loop has taken
    failedAbbrev,   \* local 'failedAbbrev'
    statsLog,       \* per abbreviation taken: what the database did, and the
                    \* recordMeasurement calls made for it
    statsOut        \* what measureAllHavingSql returned or raised

gcVars == <<driverLoaded, gcPc, attempts, delay, conn, excValue, gcErr, gcTrace>>

dbmVars == <<managers, conns, calls>>

trVars == <<trIn, trFn, trPc, trCmd3, trOut>>

sqlVars == <<onlyOneConnection, sharedDbManager, returnAsSybase, sqlPc, sqlArgs,
            sqlLocals, sqlLog, sqlOut, pgCalls, targetDatabaseType, pgHistory, pending>>

rowVars == <<mgiRow, rowLog>>

statsVars == <<statsPc, abbreviations, statsI, failedAbbrev, statsLog, statsOut>>

vars == <<driverLoaded, gcPc, attempts, delay, conn, excValue, gcErr, gcTrace,
          managers, conns, calls, trIn, trFn, trPc, trCmd3, trOut,
          onlyOneConnection, sharedDbManager, returnAsSybase, sqlPc, sqlArgs,
          sqlLocals, sqlLog, sqlOut, pgCalls, targetDatabaseType, pgHistory, pending,
          mgiRow, rowLog,
          statsPc, abbreviations, statsI, failedAbbrev, statsLog, statsOut>>

\* what the steps of each component leave unchanged
gcFrame == <<dbmVars, trVars, sqlVars, rowVars, statsVars>>

dbmFrame == <<gcVars, trVars, sqlVars, rowVars, statsVars>>

trFrame == <<gcVars, dbmVars, sqlVars, rowVars, statsVars>>

sqlFrame == <<gcVars, dbmVars, trVars, rowVars, statsVars>>

rowFrame == <<gcVars, dbmVars, trVars, sqlVars, statsVars>>

statsFrame == <<gcVars, dbmVars, trVars, sqlVars, rowVars>>

-----------------------------------------------------------------------------
(* Python values, and how a call ends *)

Raise(e) == [kind |-> "raise", err |-> e]

Return(v) == [kind |-> "return", value |-> v]

PyNone == [py |-> "None"]

PyTuple(a, b) == [py |-> "tuple", first |-> a, second |-> b]

PyList(items) == [py |-> "list", items |-> items]

PyStr(s) == [py |-> "str", s |-> s]

PyInt(n) == [py |-> "int", v |-> n]

PyFunc(name) == [py |-> "function", name |-> name]

\* the keyword argument was not given
Absent == [py |-> "absent"]

-----------------------------------------------------------------------------
(* The state of a component that the specification at hand does not run *)

\* no _getConnection call is under way
GcIdle ==
    /\ driverLoaded = TRUE
    /\ gcPc = "idle"
    /\ attempts = 0
    /\ delay = 0
    /\ conn = 0
    /\ excValue = "none"
    /\ gcErr = [exc |-> "none"]
    /\ gcTrace = <<>>

\* no manager has been constructed
DbmIdle ==
    /\ managers = <<>>
    /\ conns = <<>>
    /\ calls = <<>>

\* no translator call is made
TrIdle ==
    /\ trIn = <<>>
    /\ trFn = "none"
    /\ trPc = "idle"
    /\ trCmd3 = [kind |-> "return", value |-> <<>>]
    /\ trOut = [kind |-> "return", value |-> <<>>]

NoLocals ==
    [dbm |-> 0, command |-> <<>>, parser |-> <<>>, rowCount |-> PyNone,
     singleCommand |-> FALSE, autoParser |-> FALSE, i |-> 0,
     resultSets |-> <<>>, results |-> PyNone]

NoArgs == [command |-> PyNone, parser |-> PyNone, row_count |-> Absent]

\* no pg_db function is called
SqlIdle ==
    /\ onlyOneConnection = TRUE
    /\ sharedDbManager = 0
    /\ returnAsSybase = TRUE
    /\ sqlPc = "idle"
    /\ sqlArgs = NoArgs
    /\ sqlLocals = NoLocals
    /\ sqlLog = <<>>
    /\ sqlOut = Return(PyNone)
    /\ pgCalls = 0
    /\ targetDatabaseType = <<"p","o","s","t","g","r","e","s">>
    /\ pgHistory = <<>>
    /\ pending = {}

\* no row projection is looked at
RowIdle ==
    /\ mgiRow = [py |-> "MGIDict", myDict |-> <<>>]
    /\ rowLog = <<>>

\* measureAllHavingSql is not called
StatsIdle ==
    /\ statsPc = "ready"
    /\ abbreviations = <<>>
    /\ statsI = 0
    /\ failedAbbrev = <<>>
    /\ statsLog = <<>>
    /\ statsOut = Return(PyNone)

-----------------------------------------------------------------------------
(* Python str operations on sequences of characters *)

MinOf(S) == CHOOSE x \in S : \A y \in S : x <= y

MaxOf(S) == CHOOSE x \in S : \A y \in S : x >= y

\* s[a:b] for 0 <= a, b (no negative indices are used by the source)
Slice(s, a, b) == SubSeq(s, a + 1, IF b > Len(s) THEN Len(s) ELSE b)

\* s[a:]
SliceFrom(s, a) == SubSeq(s, a + 1, Len(s))

\* does pat occur in s at 0-based position i
OccursAt(s, pat, i) ==
    /\ i >= 0
    /\ i + Len(pat) <= Len(s)
    /\ \A k \in 1..Len(pat) : s[i + k] = pat[k]

\* s.find(pat, start): the lowest position >= start where pat occurs, or -1
Find(s, pat, start) ==
    LET hits == {i \in start..(Len(s) - Len(pat)) : OccursAt(s, pat, i)}
    IN  IF hits = {} THEN -1 ELSE MinOf(hits)

\* pat in s
Contains(s, pat) == Find(s, pat, 0) >= 0

-----------------------------------------------------------------------------
(* postgresManager._getConnection: dbManager.py 249-298 *)

MAX_ATTEMPTS == 10

\* INITIAL_DELAY = 0.1 seconds, counted in tenths of a second
INITIAL_DELAY == 1

NoError == [exc |-> "none"]

DbManagerError(msg) == [exc |-> "DbManagerError", msg |-> msg]

\* the substrings the except branch looks for (lines 275, 278, 281)
SigPassword == <<"p","a","s","s","w","o","r","d"," ","a","u","t","h","e","n","t","i","c","a","t","i","o","n"," ","f","a","i","l","e","d">>
SigDatabaseOpen == <<"d","a","t","a","b","a","s","e"," ","\"">>
SigDoesNotExist == <<"\"","d","o","e","s"," ","n","o","t"," ","e","x","i","s","t">>
SigHost == <<"c","o","u","l","d"," ","n","o","t"," ","t","r","a","n","s","l","a","t","e"," ","h","o","s","t">>

\* str(excValue) of the errors psycopg2.connect raises, by name:
\*   auth    FATAL:  password authentication failed for user "u"
\*   nodb    FATAL:  database "d" does not exist
\*   nohost  could not translate host name "h" to address
\*   busy    FATAL:  sorry, too many clients already
ExcText ==
    [ auth |-> <<"F","A","T","A","L",":"," "," ","p","a","s","s","w","o","r","d"," ","a","u","t","h","e","n","t","i","c","a","t","i","o","n"," ","f","a","i","l","e","d"," ","f","o","r"," ","u","s","e","r"," ","\"","u","\"">>,
      nodb |-> <<"F","A","T","A","L",":"," "," ","d","a","t","a","b","a","s","e"," ","\"","d","\""," ","d","o","e","s"," ","n","o","t"," ","e","x","i","s","t">>,
      nohost |-> <<"c","o","u","l","d"," ","n","o","t"," ","t","r","a","n","s","l","a","t","e"," ","h","o","s","t"," ","n","a","m","e"," ","\"","h","\""," ","t","o"," ","a","d","d","r","e","s","s">>,
      busy |-> <<"F","A","T","A","L",":"," "," ","s","o","r","r","y",","," ","t","o","o"," ","m","a","n","y"," ","c","l","i","e","n","t","s"," ","a","l","r","e","a","d","y">> ]

ExcNames == DOMAIN ExcText

\* the if / elif chain of lines 275-285 with the giving-up test mutated to '>'
ConnectFailureMsgLate(exc, n) ==
    IF Find(exc, SigPassword, 0) >= 0
    THEN "Unknown user or password"
    ELSE IF (Find(exc, SigDatabaseOpen, 0) >= 0) /\ (Find(exc, SigDoesNotExist, 0) >= 0)
    THEN "Unknown database"
    ELSE IF Find(exc, SigHost, 0) >= 0
    THEN "Unknown host"
    ELSE IF n > MAX_ATTEMPTS
    THEN "Failed to get connection; giving up"
    ELSE "None"

\* the if / elif chain of lines 275-285: the message to raise, or "None"
ConnectFailureMsg(exc, n) ==
    IF Find(exc, SigPassword, 0) >= 0
    THEN "Unknown user or password"
    ELSE IF (Find(exc, SigDatabaseOpen, 0) >= 0) /\ (Find(exc, SigDoesNotExist, 0) >= 0)
    THEN "Unknown database"
    ELSE IF Find(exc, SigHost, 0) >= 0
    THEN "Unknown host"
    ELSE IF n >= MAX_ATTEMPTS
    THEN "Failed to get connection; giving up"
    ELSE "None"

\* time.sleep(delay); delay = delay * 2.0 with the doubling left out
NextDelaySame(d) == d

\* line 296: delay = delay * 2.0
NextDelay(d) == d * 2

GcInit ==
    /\ driverLoaded \in BOOLEAN
    /\ gcPc = "call"
    /\ attempts = 0
    /\ delay = 0
    /\ conn = 0
    /\ excValue = "none"
    /\ gcErr = NoError
    /\ gcTrace = <<>>
    /\ DbmIdle
    /\ TrIdle
    /\ SqlIdle
    /\ RowIdle
    /\ StatsIdle

\* lines 251-256: the driver test and the initialisation of the locals
GcEnter ==
    /\ gcPc = "call"
    /\ IF ~driverLoaded
       THEN /\ gcPc' = "raised"
            /\ gcErr' = DbManagerError("Cannot get connection; psycopg2 driver was not loaded")
            /\ UNCHANGED <<attempts, delay, conn>>
       ELSE /\ gcPc' = "loop"
            /\ conn' = 0
            /\ attempts' = 0
            /\ delay' = INITIAL_DELAY
            /\ gcErr' = gcErr
    /\ UNCHANGED <<driverLoaded, excValue, gcTrace>>
    /\ UNCHANGED gcFrame

\* lines 258-261, psycopg2.connect returns: the loop ends, line 298 returns conn
GcConnectOk ==
    /\ gcPc = "loop"
    /\ conn = 0
    /\ attempts' = attempts + 1
    /\ conn' = 1
    /\ gcTrace' = Append(gcTrace, [ev |-> "connect", n |-> attempts + 1, exc |-> "none"])
    /\ gcPc' = "returned"
    /\ UNCHANGED <<driverLoaded, delay, excValue, gcErr>>
    /\ UNCHANGED gcFrame

\* lines 258-293, psycopg2.connect raises: classify, then raise or go on to sleep
GcConnectFail ==
    /\ gcPc = "loop"
    /\ conn = 0
    /\ \E e \in ExcNames :
        LET msg == ConnectFailureMsg(ExcText[e], attempts + 1)
        IN  /\ attempts' = attempts + 1
            /\ excValue' = e
            /\ gcTrace' = Append(gcTrace, [ev |-> "connect", n |-> attempts + 1, exc |-> e])
            /\ IF msg # "None"
               THEN /\ gcErr' = DbManagerError(msg)
                    /\ gcPc' = "raised"
               ELSE /\ gcErr' = gcErr
                    /\ gcPc' = "sleep"
    /\ UNCHANGED <<driverLoaded, delay, conn>>
    /\ UNCHANGED gcFrame

\* lines 295-296: time.sleep(delay), then the delay is doubled
GcSleep ==
    /\ gcPc = "sleep"
    /\ gcTrace' = Append(gcTrace, [ev |-> "sleep", n |-> delay, exc |-> "none"])
    /\ delay' = NextDelay(delay)
    /\ gcPc' = "loop"
    /\ UNCHANGED <<driverLoaded, attempts, conn, excValue, gcErr>>
    /\ UNCHANGED gcFrame

GcNext == GcEnter \/ GcConnectOk \/ GcConnectFail \/ GcSleep

SpecConn == GcInit /\ [][GcNext]_vars

-----------------------------------------------------------------------------
(* Claims about connection acquisition *)

RECURSIVE SumSeq(_)
SumSeq(s) == IF s = <<>> THEN 0 ELSE Head(s) + SumSeq(Tail(s))

\* the engine's wording of a nonexistent database: database "<name>" does not exist
SigDoesNotExistEngine == <<"\""," ","d","o","e","s"," ","n","o","t"," ","e","x","i","s","t">>

\* an error text that reports an authentication failure, a nonexistent
\* database or an unresolvable host
ReportsFatalCause(exc) ==
    \/ Contains(exc, SigPassword)
    \/ \E i \in 0..Len(exc) :
          /\ OccursAt(exc, SigDatabaseOpen, i)
          /\ Find(exc, SigDoesNotExistEngine, i + Len(SigDatabaseOpen)) >= 0
    \/ Contains(exc, SigHost)

CauseMsg(exc) ==
    IF Contains(exc, SigPassword) THEN "Unknown user or password"
    ELSE IF Contains(exc, SigHost) THEN "Unknown host"
    ELSE "Unknown database"

ConnectEvents == SelectSeq(gcTrace, LAMBDA e : e.ev = "connect")

SleepEvents == SelectSeq(gcTrace, LAMBDA e : e.ev = "sleep")

AllAttemptsTransient ==
    \A i \in DOMAIN gcTrace :
        gcTrace[i].ev = "connect" =>
            /\ gcTrace[i].exc # "none"
            /\ ~ReportsFatalCause(ExcText[gcTrace[i].exc])

BackoffDelays == <<1, 2, 4, 8, 16, 32, 64, 128, 256>>

\* C1: when every connect attempt fails with an error that carries no fatal
\* signature, _getConnection raises only after exactly 10 attempts, having slept
\* exactly 9 times, between the attempts, for 0.1, 0.2, ... 25.6 seconds in that
\* order (no sleep after the 10th failure), and the error is the giving-up one.
C1_TenAttemptsNineSleeps ==
    (gcPc = "raised" /\ driverLoaded /\ AllAttemptsTransient) =>
        /\ attempts = 10
        /\ Len(ConnectEvents) = 10
        /\ Len(gcTrace) = 19
        /\ \A i \in 1..10 : gcTrace[2 * i - 1].ev = "connect" /\ gcTrace[2 * i - 1].n = i
        /\ \A i \in 1..9 : gcTrace[2 * i].ev = "sleep" /\ gcTrace[2 * i].n = BackoffDelays[i]
        /\ gcErr = DbManagerError("Failed to get connection; giving up")

C1_Witness ==
    /\ gcPc = "raised"
    /\ driverLoaded
    /\ AllAttemptsTransient
    /\ attempts = 10
    /\ Len(SleepEvents) = 9

\* C2: every failed connect whose error text reports an authentication failure,
\* a nonexistent database (database "<name>" does not exist) or an unresolvable
\* host ends the acquisition at once with an error naming that cause: it is the
\* last event, no sleep and no further attempt follow.
C2_FatalFailsImmediately ==
    \A i \in DOMAIN gcTrace :
        (gcTrace[i].ev = "connect" /\ gcTrace[i].exc # "none"
            /\ ReportsFatalCause(ExcText[gcTrace[i].exc])) =>
                /\ i = Len(gcTrace)
                /\ gcPc = "raised"
                /\ gcErr = DbManagerError(CauseMsg(ExcText[gcTrace[i].exc]))

\* C3: _getConnection ends after at most 10 connect attempts whatever the
\* outcomes are (while it is still running fewer than 10 were made, so another
\* attempt is the 10th at most), and the delays slept add up to at most 51.1
\* seconds (511 tenths).
C3_BoundedAttemptsAndWait ==
    /\ attempts <= 10
    /\ Len(ConnectEvents) = attempts
    /\ SumSeq([i \in DOMAIN SleepEvents |-> SleepEvents[i].n]) <= 511
    /\ gcPc \in {"loop", "sleep"} => attempts < 10
    /\ gcPc \in {"call", "loop", "sleep"} => ENABLED GcNext

C3_Witness ==
    /\ gcPc = "raised"
    /\ attempts = 10
    /\ SumSeq([i \in DOMAIN SleepEvents |-> SleepEvents[i].n]) = 511

-----------------------------------------------------------------------------
(* dbManager: dbManager.py 62-232, with _readPasswordFile (377-390) and
   _asMGI (398-417) *)

\* how many managers are constructed, and how many calls are made on them
MaxManagers == 1
MaxCalls == 4

\* class MGIDict, lines 322-326: a wrapper around the dictionary it is given
MGIDict(d) == [py |-> "MGIDict", myDict |-> d]

\* the files of the file system: os.path.exists (line 381)
PathExists(file) == file = "/etc/pgpass1"

\* lines 377-390. For an existing file, line 385 calls str.trim(), which no
\* Python string has: the AttributeError is caught by the bare except of line
\* 387 and reported as an unreadable file.
readPasswordFile(file) ==
    IF ~PathExists(file)
    THEN Raise(DbManagerError("Unknown password file"))
    ELSE Raise(DbManagerError("Cannot read password file"))

\* lines 69-95; "None" is None, "" the empty string
dbManager_init(password, passwordFile) ==
    IF password \notin {"None", ""}
    THEN Return([dbType |-> "Postgres", sharedConnection |-> 0,
                 returnAsMGI |-> FALSE, password |-> password])
    ELSE IF passwordFile \notin {"None", ""}
    THEN LET r == readPasswordFile(passwordFile)
         IN  IF r.kind = "raise"
             THEN r
             ELSE Return([dbType |-> "Postgres", sharedConnection |-> 0,
                          returnAsMGI |-> FALSE, password |-> r.value])
    ELSE Raise(DbManagerError("Could not initialize; no password specified"))

\* what _getConnection ends with: a connection, or one of its errors
\* (lines 252, 276, 279, 282, 285)
GetConnectionOutcomes ==
    { "connected",
      "Cannot get connection; psycopg2 driver was not loaded",
      "Unknown user or password",
      "Unknown database",
      "Unknown host",
      "Failed to get connection; giving up" }

\* lines 102-113: any exception of _getConnection is printed and replaced
getConnection(outcome, fresh) ==
    IF outcome = "connected"
    THEN Return(fresh)
    ELSE Raise(DbManagerError("Cannot get connection to %s:%s as %s"))

\* what cursor.execute does with a statement: it raises, or it leaves a
\* description (<<>> stands for None) and rows to fetch
ColName == <<"N","a","m","e">>
ColValue == <<"V","a","l","u","e">>

IntValue(v) == [ty |-> "int", v |-> v]

DateValue(v) == [ty |-> "datetime", v |-> v]

StrValue(v) == [ty |-> "str", v |-> v]

CursorOutcomes ==
    { [raises |-> TRUE, detail |-> "syntax error", description |-> <<>>, rows |-> <<>>],
      [raises |-> FALSE, detail |-> "", description |-> <<>>, rows |-> <<>>],
      [raises |-> FALSE, detail |-> "", description |-> <<ColName, ColValue>>, rows |-> <<>>],
      [raises |-> FALSE, detail |-> "", description |-> <<ColName, ColValue>>,
       rows |-> << <<StrValue("kit"), IntValue("1")>>, <<StrValue("pax6"), DateValue("2014-10-22")>> >>] }

\* the statements given to execute
CmdSelect == <<"s","e","l","e","c","t"," ","1">>
CmdDelete == <<"d","e","l","e","t","e"," ","f","r","o","m"," ","t">>
Cmds == {CmdSelect, CmdDelete}

CommandFailed(cmd, detail) ==
    [exc |-> "DbManagerError", msg |-> "Command failed (%s) Error: %s",
     cmd |-> cmd, detail |-> detail]

\* lines 398-417: one dictionary per row, keyed by the column names as given,
\* a datetime value replaced by its str()
asMGI(columns, rows) ==
    [ i \in 1..Len(rows) |->
        MGIDict([ k \in {columns[j] : j \in DOMAIN columns} |->
            LET v == rows[i][MaxOf({j \in DOMAIN columns : columns[j] = k})]
            IN  IF v.ty = "datetime" THEN StrValue(v.v) ELSE v ]) ]

\* line 130 with the test left out: a connection is opened for every statement
NeedsConnectionAlways(mgr) == TRUE

\* line 130: if not self.sharedConnection
NeedsConnection(mgr) == mgr.sharedConnection = 0

\* lines 138-139 in the other order, without the rollback
FailureOpsNoRollback == <<"cursor.close">>

\* lines 138-139: what the except branch issues after a failed cursor.execute
FailureOps == <<"rollback", "cursor.close">>

\* lines 142-161 returning the columns and rows also when there are no columns
ExecuteResultNoSentinel(mgr, out) ==
    IF mgr.returnAsMGI
    THEN PyList(asMGI(out.description, out.rows))
    ELSE PyTuple(PyList(out.description), PyList(out.rows))

\* lines 142-161: the value execute returns after a successful cursor.execute
ExecuteResult(mgr, out) ==
    IF out.description = <<>>
    THEN PyTuple(PyNone, PyNone)
    ELSE IF mgr.returnAsMGI
    THEN PyList(asMGI(out.description, out.rows))
    ELSE PyTuple(PyList(out.description), PyList(out.rows))

\* lines 125-161: execute on manager mgr, where acquisition would end with acq
\* and open connection 'fresh', and cursor.execute would end with out.
\* The result names the manager afterwards, whether a connection was acquired,
\* the connection used (0: none), the operations issued on it, in order, and
\* what the caller gets.
execute(mgr, cmd, acq, fresh, out) ==
    LET need == NeedsConnection(mgr)
        got  == getConnection(acq, fresh)
    IN  IF need /\ got.kind = "raise"
        THEN [mgr |-> mgr, acquired |-> FALSE, conn |-> 0, issued |-> <<>>, result |-> got]
        ELSE LET mgr1 == IF need THEN [mgr EXCEPT !.sharedConnection = got.value] ELSE mgr
                 c == mgr1.sharedConnection
             IN  IF out.raises
                 THEN [mgr |-> mgr1, acquired |-> need, conn |-> c,
                       issued |-> <<"cursor", "cursor.execute">> \o FailureOps,
                       result |-> Raise(CommandFailed(cmd, out.detail))]
                 ELSE IF out.description = <<>>
                 THEN [mgr |-> mgr1, acquired |-> need, conn |-> c,
                       issued |-> <<"cursor", "cursor.execute", "cursor.close">>,
                       result |-> Return(ExecuteResult(mgr1, out))]
                 ELSE [mgr |-> mgr1, acquired |-> need, conn |-> c,
                       issued |-> <<"cursor", "cursor.execute", "cursor.fetchall", "cursor.close">>,
                       result |-> Return(ExecuteResult(mgr1, out))]

\* lines 187-190 closing the connection as rollback does
commitClosing(mgr) ==
    IF mgr.sharedConnection # 0
    THEN [mgr |-> [mgr EXCEPT !.sharedConnection = 0], conn |-> mgr.sharedConnection,
          issued |-> <<"commit", "close">>]
    ELSE [mgr |-> mgr, conn |-> 0, issued |-> <<>>]

\* lines 187-190
commit(mgr) ==
    IF mgr.sharedConnection # 0
    THEN [mgr |-> mgr, conn |-> mgr.sharedConnection, issued |-> <<"commit">>]
    ELSE [mgr |-> mgr, conn |-> 0, issued |-> <<>>]

\* lines 197-202
rollback(mgr) ==
    IF mgr.sharedConnection # 0
    THEN [mgr |-> [mgr EXCEPT !.sharedConnection = 0], conn |-> mgr.sharedConnection,
          issued |-> <<"rollback", "close">>]
    ELSE [mgr |-> [mgr EXCEPT !.sharedConnection = 0], conn |-> 0, issued |-> <<>>]

\* a connection is closed by the "close" issued on it
AfterIssued(cs, c, issued) ==
    IF c # 0 /\ \E i \in DOMAIN issued : issued[i] = "close"
    THEN [cs EXCEPT ![c].open = FALSE]
    ELSE cs

DbmInit ==
    /\ managers = <<>>
    /\ conns = <<>>
    /\ calls = <<>>
    /\ GcIdle
    /\ TrIdle
    /\ SqlIdle
    /\ RowIdle
    /\ StatsIdle

\* what acquiring a connection ends with, under execute: a connection, a
\* fatal failure, or the retries given up
DbmAcquisitions ==
    GetConnectionOutcomes
        \cap {"connected", "Unknown user or password", "Failed to get connection; giving up"}

\* postgresManager(host, database, user, password, passwordFile)
DbmConstruct ==
    /\ Len(managers) < MaxManagers
    /\ Len(calls) < MaxCalls
    /\ \E password \in {"None", "mgdpub"}, passwordFile \in {"None", "/etc/pgpass1", "/etc/pgpass2"} :
        LET r == dbManager_init(password, passwordFile)
        IN  \* a password file matters only without a password
            /\ (password = "None" \/ passwordFile = "None")
            /\ managers' = IF r.kind = "return" THEN Append(managers, r.value) ELSE managers
            /\ calls' = Append(calls,
                  [op |-> "__init__", m |-> IF r.kind = "return" THEN Len(managers) + 1 ELSE 0,
                   password |-> password, passwordFile |-> passwordFile,
                   cmd |-> <<>>, flag |-> FALSE, before |-> 0,
                   after |-> IF r.kind = "return" THEN r.value.sharedConnection ELSE 0,
                   acq |-> "none", acquired |-> FALSE, conn |-> 0, issued |-> <<>>,
                   out |-> <<>>, result |-> IF r.kind = "return" THEN Return(PyNone) ELSE r])
    /\ UNCHANGED conns
    /\ UNCHANGED dbmFrame

\* mgr.execute(cmd)
DbmExecute ==
    /\ Len(calls) < MaxCalls
    /\ \E m \in DOMAIN managers, cmd \in Cmds, acq \in DbmAcquisitions, out \in CursorOutcomes :
        LET r == execute(managers[m], cmd, acq, Len(conns) + 1, out)
        IN  \* the outcome of an acquisition matters only when one is made
            /\ (NeedsConnection(managers[m]) \/ acq = "connected")
            \* a statement that is not run has no cursor outcome
            /\ (r.conn # 0 \/ out = CHOOSE o \in CursorOutcomes : o.raises)
            /\ managers' = [managers EXCEPT ![m] = r.mgr]
            /\ conns' = AfterIssued(IF r.acquired
                                    THEN Append(conns, [owner |-> m, open |-> TRUE])
                                    ELSE conns, r.conn, r.issued)
            /\ calls' = Append(calls,
                  [op |-> "execute", m |-> m, cmd |-> cmd, flag |-> managers[m].returnAsMGI,
                   before |-> managers[m].sharedConnection, after |-> r.mgr.sharedConnection,
                   acq |-> IF NeedsConnection(managers[m]) THEN acq ELSE "none",
                   acquired |-> r.acquired, conn |-> r.conn, issued |-> r.issued,
                   out |-> IF r.conn # 0 THEN <<out>> ELSE <<>>, result |-> r.result])
    /\ UNCHANGED dbmFrame

\* mgr.commit()
DbmCommit ==
    /\ Len(calls) < MaxCalls
    /\ \E m \in DOMAIN managers :
        LET r == commit(managers[m])
        IN  /\ managers' = [managers EXCEPT ![m] = r.mgr]
            /\ conns' = AfterIssued(conns, r.conn, r.issued)
            /\ calls' = Append(calls,
                  [op |-> "commit", m |-> m, cmd |-> <<>>, flag |-> managers[m].returnAsMGI,
                   before |-> managers[m].sharedConnection, after |-> r.mgr.sharedConnection,
                   acq |-> "none", acquired |-> FALSE, conn |-> r.conn, issued |-> r.issued,
                   out |-> <<>>, result |-> Return(PyNone)])
    /\ UNCHANGED dbmFrame

\* mgr.rollback()
DbmRollback ==
    /\ Len(calls) < MaxCalls
    /\ \E m \in DOMAIN managers :
        LET r == rollback(managers[m])
        IN  /\ managers' = [managers EXCEPT ![m] = r.mgr]
            /\ conns' = AfterIssued(conns, r.conn, r.issued)
            /\ calls' = Append(calls,
                  [op |-> "rollback", m |-> m, cmd |-> <<>>, flag |-> managers[m].returnAsMGI,
                   before |-> managers[m].sharedConnection, after |-> r.mgr.sharedConnection,
                   acq |-> "none", acquired |-> FALSE, conn |-> r.conn, issued |-> r.issued,
                   out |-> <<>>, result |-> Return(PyNone)])
    /\ UNCHANGED dbmFrame

\* mgr.setReturnAsMGI(flag), lines 176-180
DbmSetReturnAsMGI ==
    /\ Len(calls) < MaxCalls
    /\ \E m \in DOMAIN managers, flag \in BOOLEAN :
        /\ managers[m].returnAsMGI # flag
        /\ managers' = [managers EXCEPT ![m].returnAsMGI = flag]
        /\ calls' = Append(calls,
              [op |-> "setReturnAsMGI", m |-> m, cmd |-> <<>>, flag |-> flag,
               before |-> managers[m].sharedConnection, after |-> managers[m].sharedConnection,
               acq |-> "none", acquired |-> FALSE, conn |-> 0, issued |-> <<>>,
               out |-> <<>>, result |-> Return(PyNone)])
    /\ UNCHANGED conns
    /\ UNCHANGED dbmFrame

DbmNext == DbmConstruct \/ DbmExecute \/ DbmCommit \/ DbmRollback \/ DbmSetReturnAsMGI

SpecDbm == DbmInit /\ [][DbmNext]_vars

-----------------------------------------------------------------------------
(* Claims about the connection manager *)

ExecutesOn(m) ==
    {i \in DOMAIN calls : calls[i].op = "execute" /\ calls[i].m = m /\ calls[i].conn # 0}

Acquisitions(m) == {i \in DOMAIN calls : calls[i].m = m /\ calls[i].acquired}

NoRollbackCalled == \A i \in DOMAIN calls : calls[i].op # "rollback"

OpenConnsOf(m) == {c \in DOMAIN conns : conns[c].owner = m /\ conns[c].open}

\* C4: a manager holds no connection after construction and execute acquires
\* one only when none is held; while no rollback has been called, the executes
\* that ran a statement acquired exactly one connection, at the first of them,
\* and all ran on it; a manager never has more than one open connection.
C4_OneConnectionReused ==
    /\ \A i \in DOMAIN calls :
          (calls[i].op = "__init__" /\ calls[i].result.kind = "return") => calls[i].after = 0
    /\ \A i \in DOMAIN calls :
          (calls[i].op = "execute" /\ calls[i].acquired) => calls[i].before = 0
    /\ \A m \in DOMAIN managers : Cardinality(OpenConnsOf(m)) <= 1
    /\ NoRollbackCalled =>
          \A m \in DOMAIN managers :
              /\ Cardinality({c \in DOMAIN conns : conns[c].owner = m}) <= 1
              /\ ExecutesOn(m) # {} =>
                    /\ Acquisitions(m) = {MinOf(ExecutesOn(m))}
                    /\ \A i \in ExecutesOn(m) : calls[i].conn = calls[MinOf(ExecutesOn(m))].conn

C4_Witness ==
    /\ NoRollbackCalled
    /\ \E i, j, k \in DOMAIN calls :
          /\ i < j /\ j < k
          /\ calls[i].op = "execute" /\ calls[i].acquired
          /\ calls[j].op = "commit"
          /\ calls[k].op = "execute" /\ calls[k].conn = calls[i].conn

\* C5: rollback on a manager holding a connection issues rollback, then close,
\* on it and leaves the manager without one, so that the next execute acquires
\* another connection; commit issues commit and keeps the connection, which the
\* next execute uses; on a manager holding none both issue nothing and acquire
\* nothing.
C5_RollbackClosesCommitKeeps ==
    \A i \in DOMAIN calls :
        /\ (calls[i].op = "rollback" /\ calls[i].before # 0) =>
              /\ calls[i].issued = <<"rollback", "close">>
              /\ calls[i].conn = calls[i].before
              /\ calls[i].after = 0
              /\ ~conns[calls[i].before].open
              /\ \A j \in DOMAIN calls :
                    (j > i /\ j = MinOf({k \in ExecutesOn(calls[i].m) \cup {j} : k > i})
                       /\ j \in ExecutesOn(calls[i].m)) =>
                          /\ calls[j].acquired
                          /\ calls[j].conn # calls[i].before
                          /\ \A k \in 1..(j - 1) : calls[k].conn # calls[j].conn
        /\ (calls[i].op = "commit" /\ calls[i].before # 0) =>
              /\ calls[i].issued = <<"commit">>
              /\ calls[i].conn = calls[i].before
              /\ calls[i].after = calls[i].before
              /\ (i + 1 \in ExecutesOn(calls[i].m)) =>
                    (~calls[i + 1].acquired /\ calls[i + 1].conn = calls[i].before)
        /\ (calls[i].op \in {"rollback", "commit"} /\ calls[i].before = 0) =>
              /\ calls[i].issued = <<>>
              /\ calls[i].conn = 0
              /\ ~calls[i].acquired
              /\ calls[i].after = 0

C5_Witness ==
    \E i, j, k \in DOMAIN calls :
        /\ i < j /\ j < k
        /\ calls[i].op = "execute" /\ calls[i].acquired
        /\ calls[j].op = "rollback" /\ calls[j].before = calls[i].conn
        /\ calls[k].op = "execute" /\ calls[k].acquired /\ calls[k].conn # calls[i].conn

\* C6: when executing the statement raises, execute issues a rollback on the
\* connection, then closes the cursor, then raises the command-failed error
\* with the command text and the error detail; it returns nothing.
C6_FailedStatementRollsBack ==
    \A i \in DOMAIN calls :
        (calls[i].op = "execute" /\ calls[i].out # <<>> /\ calls[i].out[1].raises) =>
            /\ calls[i].conn = calls[i].after
            /\ calls[i].conn # 0
            /\ calls[i].issued = <<"cursor", "cursor.execute", "rollback", "cursor.close">>
            /\ calls[i].result = Raise(CommandFailed(calls[i].cmd, calls[i].out[1].detail))

C6_Witness ==
    \E i \in DOMAIN calls :
        /\ calls[i].op = "execute" /\ calls[i].out # <<>> /\ calls[i].out[1].raises
        /\ calls[i].result.kind = "raise"
        /\ calls[i].result.err.cmd = calls[i].cmd

IsSentinel(v) == v.py = "tuple" /\ v.first.py = "None" /\ v.second.py = "None"

Succeeded(i) ==
    calls[i].op = "execute" /\ calls[i].out # <<>> /\ ~calls[i].out[1].raises

\* C7 as stated: execute returns (None, None) exactly when the statement left
\* no column descriptors, and with column descriptors and zero rows it returns
\* the non-empty column list with an empty row list, whatever returnAsMGI is.
C7_ZeroRowsKeepColumnList ==
    \A i \in DOMAIN calls :
        Succeeded(i) =>
            /\ calls[i].result.kind = "return"
            /\ IsSentinel(calls[i].result.value) <=> (calls[i].out[1].description = <<>>)
            /\ (calls[i].out[1].description # <<>> /\ calls[i].out[1].rows = <<>>) =>
                  calls[i].result.value =
                      PyTuple(PyList(calls[i].out[1].description), PyList(<<>>))

\* C7 as amended: execute returns (None, None) exactly when the statement left
\* no column descriptors; with column descriptors it returns, with returnAsMGI
\* off, the non-empty column list and the row list (empty for zero rows) and,
\* with returnAsMGI on, a list of one row projection per row (the empty list
\* for zero rows, without a column list); neither is (None, None).
C7_SentinelOnlyWithoutColumns ==
    \A i \in DOMAIN calls :
        Succeeded(i) =>
            /\ calls[i].result.kind = "return"
            /\ IsSentinel(calls[i].result.value) <=> (calls[i].out[1].description = <<>>)
            /\ (calls[i].out[1].description # <<>> /\ ~calls[i].flag) =>
                  calls[i].result.value =
                      PyTuple(PyList(calls[i].out[1].description), PyList(calls[i].out[1].rows))
            /\ (calls[i].out[1].description # <<>> /\ calls[i].flag) =>
                  /\ calls[i].result.value.py = "list"
                  /\ Len(calls[i].result.value.items) = Len(calls[i].out[1].rows)
                  /\ \A r \in DOMAIN calls[i].result.value.items :
                        calls[i].result.value.items[r].py = "MGIDict"

C7_Witness ==
    \E i, j \in DOMAIN calls :
        /\ Succeeded(i) /\ calls[i].flag
        /\ calls[i].out[1].description # <<>> /\ calls[i].out[1].rows = <<>>
        /\ calls[i].result.value = PyList(<<>>)
        /\ Succeeded(j) /\ calls[j].out[1].description = <<>>
        /\ IsSentinel(calls[j].result.value)


\* the calls of execute whose connection acquisition failed
FailedAcquisitions ==
    {i \in DOMAIN calls : calls[i].op = "execute" /\ calls[i].acq \notin {"none", "connected"}}

\* C26: when the acquisition of a connection fails underneath execute, the
\* error the caller gets carries the cause that the acquirer determined (bad
\* credential, unknown database, unknown host, or retries given up), so that a
\* fatal failure and exhausted retries reach the caller as different errors.
C26_AcquisitionCauseReachesCaller ==
    \A i \in FailedAcquisitions :
        /\ calls[i].result.kind = "raise"
        /\ calls[i].result.err.msg = calls[i].acq

\* the constructions so far
Constructions == {i \in DOMAIN calls : calls[i].op = "__init__"}

\* the first line, trimmed, of the password file that exists
FirstLineTrimmed(file) == "mgdpub"

\* C27: a construction with an inline credential keeps it as the credential; a
\* construction with only a password file that exists and can be read succeeds
\* with the first line of the file, trimmed, as the credential; a construction
\* with neither fails with 'Could not initialize; no password specified' and
\* gives no manager.
C27_CredentialAtConstruction ==
    \A i \in Constructions :
        /\ calls[i].password # "None" =>
              /\ calls[i].result.kind = "return"
              /\ managers[calls[i].m].password = calls[i].password
        /\ ( /\ calls[i].password = "None"
             /\ calls[i].passwordFile # "None"
             /\ PathExists(calls[i].passwordFile) ) =>
              /\ calls[i].result.kind = "return"
              /\ calls[i].m # 0
              /\ managers[calls[i].m].password = FirstLineTrimmed(calls[i].passwordFile)
        /\ (calls[i].password = "None" /\ calls[i].passwordFile = "None") =>
              /\ calls[i].result =
                    Raise(DbManagerError("Could not initialize; no password specified"))
              /\ calls[i].m = 0
-----------------------------------------------------------------------------
(* Python str and re operations used by the translators of pg_db.py *)

Whitespace == {" ", "\t", "\n", "\r", "\f"}

LowerLetters == <<"a","b","c","d","e","f","g","h","i","j","k","l","m","n","o","p","q","r","s","t","u","v","w","x","y","z">>

UpperLetters == <<"A","B","C","D","E","F","G","H","I","J","K","L","M","N","O","P","Q","R","S","T","U","V","W","X","Y","Z">>

Letters == {LowerLetters[i] : i \in DOMAIN LowerLetters} \cup {UpperLetters[i] : i \in DOMAIN UpperLetters}

Digits == {"0","1","2","3","4","5","6","7","8","9"}

\* [A-Za-z_0-9]
WordChars == Letters \cup Digits \cup {"_"}

\* [A-Za-z_\.0-9]
NameChars == WordChars \cup {"."}

LowerChar(c) ==
    IF \E i \in DOMAIN UpperLetters : UpperLetters[i] = c
    THEN LowerLetters[CHOOSE i \in DOMAIN UpperLetters : UpperLetters[i] = c]
    ELSE c

\* s.lower()
Lower(s) == [i \in 1..Len(s) |-> LowerChar(s[i])]

\* s.replace(old, new): the occurrences of old, left to right, not overlapping
RECURSIVE Replace(_, _, _)
Replace(s, old, new) ==
    LET From(i) ==
            IF i < 0
            THEN s
            ELSE SubSeq(s, 1, i) \o new \o Replace(SliceFrom(s, i + Len(old)), old, new)
    IN  From(Find(s, old, 0))

\* s.find(lower) and, when that finds nothing, s.find(upper)
FindKeyword(s, lower, upper) ==
    LET OrUpper(i) == IF i >= 0 THEN i ELSE Find(s, upper, 0)
    IN  OrUpper(Find(s, lower, 0))

\* s.lstrip()
Lstrip(s) ==
    LET n == MinOf({i \in 0..Len(s) : i = Len(s) \/ s[i + 1] \notin Whitespace})
    IN  SliceFrom(s, n)

\* the end of the longest run of characters of class C that starts at q
RunEnd(s, q, C) ==
    IF q >= Len(s) THEN q ELSE MinOf({i \in q..Len(s) : i = Len(s) \/ s[i + 1] \notin C})

\* the end of the longest run of characters outside class C that starts at q
RunEndNot(s, q, C) ==
    IF q >= Len(s) THEN q ELSE MinOf({i \in q..Len(s) : i = Len(s) \/ s[i + 1] \in C})

\* does pat (in lower case) occur in s at position i, letter case ignored
OccursAtCI(s, pat, i) ==
    /\ i >= 0
    /\ i + Len(pat) <= Len(s)
    /\ \A k \in 1..Len(pat) : LowerChar(s[i + k]) = pat[k]

CharAt(s, i) == IF i >= 0 /\ i < Len(s) THEN s[i + 1] ELSE ""

NoMatch == [ok |-> FALSE]

\* equalClause (line 79) tried at position p:
\*   ([\s(])([A-Za-z_\.0-9]+) *(!?=) *'([^']*)'
\* Each repetition is followed by a character outside its class, so the
\* greedy choice is the only one that can match.
EqualMatchAt(s, p) ==
    LET Groups(idEnd, a, b, c, d) ==
            IF /\ CharAt(s, p) \in Whitespace \cup {"("}
               /\ idEnd > p + 1
               /\ CharAt(s, b) = "="
               /\ CharAt(s, c) = "'"
               /\ d >= 0
            THEN [ok |-> TRUE, start |-> p, stop |-> d + 1,
                  g1 |-> <<s[p + 1]>>, g2 |-> Slice(s, p + 1, idEnd),
                  g3 |-> Slice(s, a, b + 1), g4 |-> Slice(s, c + 1, d)]
            ELSE NoMatch
        Closing(idEnd, a, b, c) == Groups(idEnd, a, b, c, Find(s, <<"'">>, c + 1))
        Opening(idEnd, a, b) == Closing(idEnd, a, b, RunEnd(s, b + 1, {" "}))
        Comparison(idEnd, a) == Opening(idEnd, a, IF CharAt(s, a) = "!" THEN a + 1 ELSE a)
        Blanks(idEnd) == Comparison(idEnd, RunEnd(s, idEnd, {" "}))
    IN  Blanks(RunEnd(s, p + 1, NameChars))

\* equalClause.search(s, pos)
EqualSearch(s, pos) ==
    LET First(hits) == IF hits = {} THEN NoMatch ELSE EqualMatchAt(s, MinOf(hits))
    IN  First({p \in pos..(Len(s) - 1) : EqualMatchAt(s, p).ok})

\* the rest of inClause (lines 82-83) after the name, tried at position q:
\*    *(not)? *(in) *\(('[^)]+)\)     with re.IGNORECASE
InRestAt(s, q) ==
    LET Groups(hasNot, b, c, d) ==
            IF /\ OccursAtCI(s, <<"i","n">>, b)
               /\ CharAt(s, c) = "("
               /\ CharAt(s, c + 1) = "'"
               /\ d >= c + 3
            THEN [ok |-> TRUE, stop |-> d + 1, hasNot |-> hasNot, g5 |-> Slice(s, c + 1, d)]
            ELSE NoMatch
        Closing(hasNot, b, c) == Groups(hasNot, b, c, Find(s, <<")">>, c + 2))
        Opening(hasNot, b) == Closing(hasNot, b, RunEnd(s, b + 2, {" "}))
        In(a, hasNot) == Opening(hasNot, IF hasNot THEN RunEnd(s, a + 3, {" "}) ELSE a)
        Not(a) == In(a, OccursAtCI(s, <<"n","o","t">>, a))
    IN  Not(RunEnd(s, q, {" "}))

\* inClause tried at position p:
\*   ([\s(])([A-Za-z_\.0-9]+) *(not)? *(in) *\(('[^)]+)\)
\* The name is matched greedily and given back one character at a time until
\* the rest matches: a name may end where the letters of 'not' or 'in' begin.
InMatchAt(s, p) ==
    LET Groups(e, r) ==
            [ok |-> TRUE, start |-> p, stop |-> r.stop,
             g1 |-> <<s[p + 1]>>, g2 |-> Slice(s, p + 1, e),
             hasNot |-> r.hasNot, g5 |-> r.g5]
        Longest(e) == Groups(e, InRestAt(s, e))
        Name(ends) ==
            IF CharAt(s, p) \in Whitespace \cup {"("} /\ ends # {}
            THEN Longest(MaxOf(ends))
            ELSE NoMatch
    IN  Name({e \in (p + 2)..RunEnd(s, p + 1, NameChars) : InRestAt(s, e).ok})

\* inClause.search(s, pos)
InSearch(s, pos) ==
    LET First(hits) == IF hits = {} THEN NoMatch ELSE InMatchAt(s, MinOf(hits))
    IN  First({p \in pos..(Len(s) - 1) : InMatchAt(s, p).ok})

\* renameClause (line 87) tried at position p:
\*   ([\s])([A-Za-z_0-9]+) *= *([^\s,]+)
RenameMatchAt(s, p) ==
    LET Groups(idEnd, a, b, c) ==
            IF /\ CharAt(s, p) \in Whitespace
               /\ idEnd > p + 1
               /\ CharAt(s, a) = "="
               /\ c > b
            THEN [ok |-> TRUE, start |-> p, stop |-> c,
                  g1 |-> <<s[p + 1]>>, g2 |-> Slice(s, p + 1, idEnd), g3 |-> Slice(s, b, c)]
            ELSE NoMatch
        Value(idEnd, a, b) == Groups(idEnd, a, b, RunEndNot(s, b, Whitespace \cup {","}))
        Equals(idEnd, a) == Value(idEnd, a, RunEnd(s, a + 1, {" "}))
        Blanks(idEnd) == Equals(idEnd, RunEnd(s, idEnd, {" "}))
    IN  Blanks(RunEnd(s, p + 1, WordChars))

\* renameClause.search(s, pos)
RenameSearch(s, pos) ==
    LET First(hits) == IF hits = {} THEN NoMatch ELSE RenameMatchAt(s, MinOf(hits))
    IN  First({p \in pos..(Len(s) - 1) : RenameMatchAt(s, p).ok})

-----------------------------------------------------------------------------
(* translate: pg_db.py 89-212 *)

IndexError == [exc |-> "IndexError", msg |-> "list index out of range"]

\* lines 93-100: the stored-procedure call. split(' ', 1) gives a one-item
\* list when no space follows the procedure name, and sp_args[1] then raises.
ExecStep(cmd1) ==
    LET Call(rest, sep) ==
            IF sep < 0
            THEN Raise(IndexError)
            ELSE Return(<<"s","e","l","e","c","t"," ","*"," ","f","r","o","m"," ">> \o Slice(rest, 0, sep) \o <<" ","(">>
                        \o SliceFrom(rest, sep + 1) \o <<")",";">>)
        Args(rest) == Call(rest, Find(rest, <<" ">>, 0))
        After(execIdx) == Args(Lstrip(SliceFrom(cmd1, execIdx + 4)))
    IN  IF Contains(Lower(cmd1), <<"e","x","e","c"," ">>)
        THEN After(Find(Lower(cmd1), <<"e","x","e","c">>, 0))
        ELSE Return(cmd1)

\* lines 105-120: the replacements made in every statement, in order
TranslateRules ==
    << <<<<"n","o","t"," ","l","i","k","e"," ","'","[","A","-","Z","]","[","0","-","9","]","[","0","-","9","]","[","0","-","9","]","[","0","-","9","]","[","0","-","9","]","'">>,
         <<"!","~"," ","'","^","[","a","-","z","A","-","Z","]","[","0","-","9","]","[","0","-","9","]","[","0","-","9","]","[","0","-","9","]","[","0","-","9","]","$","'">>>>,
       <<<<"n","o","t"," ","l","i","k","e"," ","'","[","A","-","Z","]","[","A","-","Z","]","[","0","-","9","]","[","0","-","9","]","[","0","-","9","]","[","0","-","9","]","[","0","-","9","]","[","0","-","9","]","'">>,
         <<"!","~"," ","'","^","[","a","-","z","A","-","Z","]","[","a","-","z","A","-","Z","]","[","0","-","9","]","[","0","-","9","]","[","0","-","9","]","[","0","-","9","]","[","0","-","9","]","[","0","-","9","]","$","'">>>>,
       <<<<"c","o","n","v","e","r","t","(","c","h","a","r","(","1","0",")",",">>, <<"t","o","_","c","h","a","r","(">>>>,
       <<<<","," ","1","0","1",")">>, <<","," ","'","M","M","/","d","d","/","y","y","y","y","'",")">>>>,
       <<<<"d","a","t","e","a","d","d","(","d","a","y",","," ","1",","," ","g",".","c","d","a","t","e",")">>, <<"(","g",".","c","d","a","t","e"," ","+"," ","i","n","t","e","r","v","a","l"," ","'","1"," ","d","a","y","'",")">>>>,
       <<<<".","o","f","f","s","e","t">>, <<".","c","m","O","f","f","s","e","t">>>>,
       <<<<" ","l","i","k","e"," ">>, <<" ","i","l","i","k","e"," ">>>>,
       <<<<" ","L","I","K","E"," ">>, <<" ","I","L","I","K","E"," ">>>>,
       <<<<" ","n","u","l","l"," ">>, <<" ","N","U","L","L"," ">>>>,
       <<<<"!","="," ","N","U","L","L">>, <<"i","s"," ","n","o","t"," ","n","u","l","l">>>> >>

\* s with the replacements rules[i], rules[i+1], ... made one after the other
RECURSIVE ReplaceEach(_, _, _)
ReplaceEach(s, rules, i) ==
    LET Rest(t) == IF Len(t) >= 0 THEN ReplaceEach(t, rules, i + 1) ELSE t
    IN  IF i > Len(rules)
        THEN s
        ELSE Rest(Replace(s, rules[i][1], rules[i][2]))

\* lines 122-124
NullStep(cmd1) ==
    IF ~Contains(Lower(cmd1), <<"u","p","d","a","t","e"," ">>)
    THEN Replace(cmd1, <<"="," ","N","U","L","L">>, <<"i","s"," ","n","u","l","l">>)
    ELSE cmd1

\* lines 136-148: the loop over the matches of equalClause, from position pos,
\* the text up to 'last' being already copied
RECURSIVE EqualLoop(_, _, _)
EqualLoop(cmd1, last, pos) ==
    LET Copy(match) ==
            IF match.ok
            THEN Slice(cmd1, last, match.start)
                    \o match.g1 \o <<"l","o","w","e","r","(">> \o match.g2 \o <<")"," ">> \o match.g3
                    \o <<" ","'">> \o Lower(match.g4) \o <<"'">>
                    \o EqualLoop(cmd1, match.stop, match.stop)
            ELSE SliceFrom(cmd1, last)
    IN  Copy(EqualSearch(cmd1, pos))

\* lines 150-170: the loop over the matches of inClause
RECURSIVE InLoop(_, _, _)
InLoop(cmd2, last, pos) ==
    LET Copy(match) ==
            IF match.ok
            THEN Slice(cmd2, last, match.start)
                    \o match.g1 \o <<"l","o","w","e","r","(">> \o match.g2 \o <<")"," ">>
                    \o (IF match.hasNot THEN <<"n","o","t"," ","i","n">> ELSE <<"i","n">>)
                    \o <<" ","(">> \o Lower(match.g5) \o <<")">>
                    \o InLoop(cmd2, match.stop, match.stop)
            ELSE SliceFrom(cmd2, last)
    IN  Copy(InSearch(cmd2, pos))

\* lines 126-172: the comparisons after the first 'where' (or, when there is
\* none, the first 'WHERE') are made case insensitive
WhereStep(cmd1) ==
    LET After(wherePos) ==
            IF wherePos >= 0
            THEN InLoop(EqualLoop(cmd1, 0, wherePos), 0, wherePos)
            ELSE cmd1
    IN  After(FindKeyword(cmd1, <<"w","h","e","r","e">>, <<"W","H","E","R","E">>))

\* lines 200-208: the loop over the matches of renameClause that end before fromPos
RECURSIVE RenameLoop(_, _, _, _)
RenameLoop(cmd3, last, pos, fromPos) ==
    LET Copy(match) ==
            IF match.ok /\ match.stop < fromPos
            THEN Slice(cmd3, last, match.start)
                    \o match.g1 \o match.g3 \o <<" ","a","s"," ">> \o match.g2
                    \o RenameLoop(cmd3, match.stop, match.stop, fromPos)
            ELSE SliceFrom(cmd3, last)
    IN  Copy(RenameSearch(cmd3, pos))

\* lines 174-212: 'x = y' in the select list becomes 'y as x'
RenameStep(cmd3) ==
    LET Rewrite(updatePos, selectPos, fromPos) ==
            IF updatePos >= 0 /\ (selectPos < 0 \/ selectPos > updatePos)
            THEN cmd3
            ELSE IF fromPos < 0
            THEN cmd3
            ELSE RenameLoop(cmd3, 0, 0, fromPos)
    IN  Rewrite(FindKeyword(cmd3, <<"u","p","d","a","t","e">>, <<"U","P","D","A","T","E">>),
                FindKeyword(cmd3, <<"s","e","l","e","c","t">>, <<"S","E","L","E","C","T">>),
                FindKeyword(cmd3, <<"f","r","o","m">>, <<"F","R","O","M">>))

\* lines 89-172: the text 'cmd3' that the select-list rewrite is given
TranslateCmd3(cmd) ==
    LET Rest(e) ==
            IF e.kind = "raise"
            THEN e
            ELSE Return(WhereStep(NullStep(ReplaceEach(e.value, TranslateRules, 1))))
    IN  Rest(ExecStep(Replace(cmd, <<"\"">>, <<"'">>)))

\* lines 89-212
translate(cmd) ==
    LET Rest(c) == IF c.kind = "raise" THEN c ELSE Return(RenameStep(c.value))
    IN  Rest(TranslateCmd3(cmd))

-----------------------------------------------------------------------------
(* translate_be: pg_db.py 217-362 *)

\* the temporary-table rules with the first two in the other order
BeTempTableRulesIntoFirst ==
    << <<<<"i","n","t","o"," ","#">>,
          <<"I","N","T","O"," ","T","E","M","P","O","R","A","R","Y"," ","T","A","B","L","E"," ">>>>,
       <<<<"i","n","s","e","r","t"," ","i","n","t","o"," ","#">>,
          <<"i","n","s","e","r","t"," ","i","n","t","o"," ">>>>,
       <<<<"d","r","o","p"," ","t","a","b","l","e">>,
          <<"d","r","o","p"," ","t","a","b","l","e"," ","i","f"," ","e","x","i","s","t","s">>>>,
       <<<<"#">>,
          <<>>>> >>

\* lines 226-233: temporary tables; the order of the rules matters
BeTempTableRules ==
    << <<<<"i","n","s","e","r","t"," ","i","n","t","o"," ","#">>,
          <<"i","n","s","e","r","t"," ","i","n","t","o"," ">>>>,
       <<<<"i","n","t","o"," ","#">>,
          <<"I","N","T","O"," ","T","E","M","P","O","R","A","R","Y"," ","T","A","B","L","E"," ">>>>,
       <<<<"d","r","o","p"," ","t","a","b","l","e">>,
          <<"d","r","o","p"," ","t","a","b","l","e"," ","i","f"," ","e","x","i","s","t","s">>>>,
       <<<<"#">>,
          <<>>>> >>

\* the schema rewrite left out
SchemaRewriteLeftOut(cmd1) == cmd1

\* lines 237-240: schema..table becomes schema.table
SchemaRewrite(cmd1) == Replace(cmd1, <<".",".">>, <<".">>)

\* lines 245-249: the copies from translate
BeCopiedRules ==
    << <<<<"o","f","f","s","e","t">>,
          <<"c","m","O","f","f","s","e","t">>>>,
       <<<<" ","l","i","k","e"," ">>,
          <<" ","i","l","i","k","e"," ">>>>,
       <<<<" ","L","I","K","E"," ">>,
          <<" ","I","L","I","K","E"," ">>>>,
       <<<<" ","n","u","l","l"," ">>,
          <<" ","N","U","L","L"," ">>>>,
       <<<<"!","="," ","N","U","L","L">>,
          <<"i","s"," ","n","o","t"," ","n","u","l","l">>>> >>

\* lines 226-249: every replacement made before the '= NULL' step, in order
BeRulesFirst == BeTempTableRules \o << <<<<".",".">>, <<".">>>> >> \o BeCopiedRules

\* lines 260-341: function renames and conversions, with the loops of lines 273-278 and 291-296 unrolled
BeRulesSecond ==
    << <<<<"s","u","b","s","t","r","i","n","g">>,
          <<"s","u","b","s","t","r">>>>,
       <<<<"c","o","n","v","e","r","t","(","v","a","r","c","h","a","r","(","1","0",")",","," ","g",".","m","o","d","i","f","i","c","a","t","i","o","n","_","d","a","t","e",","," ","1","1","2",")">>,
          <<"g",".","m","o","d","i","f","i","c","a","t","i","o","n","_","d","a","t","e",":",":","D","A","T","E">>>>,
       <<<<"c","o","n","v","e","r","t","(","c","h","a","r","(","1","0",")",","," ","t",".","c","o","m","p","l","e","t","i","o","n","_","d","a","t","e",","," ","1","1","2",")">>,
          <<"t",".","c","o","m","p","l","e","t","i","o","n","_","d","a","t","e",":",":","D","A","T","E">>>>,
       <<<<"c","o","n","v","e","r","t","(","c","h","a","r","(","1","0",")",",">>,
          <<"t","o","_","c","h","a","r","(">>>>,
       <<<<","," ","1","0","1",")">>,
          <<","," ","'","M","M","/","d","d","/","y","y","y","y","'",")">>>>,
       <<<<"c","o","n","v","e","r","t","(","i","n","t",","," ","c",".","s","t","a","r","t","C","o","o","r","d","i","n","a","t","e",")">>,
          <<"c","a","s","t","(","c",".","s","t","a","r","t","c","o","o","r","d","i","n","a","t","e"," ","a","s"," ","v","a","r","c","h","a","r",")">>>>,
       <<<<"c","o","n","v","e","r","t","(","i","n","t",","," ","c",".","e","n","d","C","o","o","r","d","i","n","a","t","e",")">>,
          <<"c","a","s","t","(","c",".","e","n","d","c","o","o","r","d","i","n","a","t","e"," ","a","s"," ","v","a","r","c","h","a","r",")">>>>,
       <<<<"c","o","n","v","e","r","t","(","i","n","t",","," ","s","c","c",".","s","t","a","r","t","C","o","o","r","d","i","n","a","t","e",")">>,
          <<"c","a","s","t","(","s","c","c",".","s","t","a","r","t","c","o","o","r","d","i","n","a","t","e"," ","a","s"," ","v","a","r","c","h","a","r",")">>>>,
       <<<<"c","o","n","v","e","r","t","(","i","n","t",","," ","s","c","c",".","e","n","d","C","o","o","r","d","i","n","a","t","e",")">>,
          <<"c","a","s","t","(","s","c","c",".","e","n","d","c","o","o","r","d","i","n","a","t","e"," ","a","s"," ","v","a","r","c","h","a","r",")">>>>,
       <<<<"c","o","n","v","e","r","t","(","i","n","t",","," ","f",".","s","t","a","r","t","C","o","o","r","d","i","n","a","t","e",")">>,
          <<"c","a","s","t","(","f",".","s","t","a","r","t","c","o","o","r","d","i","n","a","t","e"," ","a","s"," ","v","a","r","c","h","a","r",")">>>>,
       <<<<"c","o","n","v","e","r","t","(","i","n","t",","," ","f",".","e","n","d","C","o","o","r","d","i","n","a","t","e",")">>,
          <<"c","a","s","t","(","f",".","e","n","d","c","o","o","r","d","i","n","a","t","e"," ","a","s"," ","v","a","r","c","h","a","r",")">>>>,
       <<<<"c","o","n","v","e","r","t","(","i","n","t",","," ","m","c","f",".","s","t","a","r","t","C","o","o","r","d","i","n","a","t","e",")">>,
          <<"c","a","s","t","(","m","c","f",".","s","t","a","r","t","c","o","o","r","d","i","n","a","t","e"," ","a","s"," ","v","a","r","c","h","a","r",")">>>>,
       <<<<"c","o","n","v","e","r","t","(","i","n","t",","," ","m","c","f",".","e","n","d","C","o","o","r","d","i","n","a","t","e",")">>,
          <<"c","a","s","t","(","m","c","f",".","e","n","d","c","o","o","r","d","i","n","a","t","e"," ","a","s"," ","v","a","r","c","h","a","r",")">>>>,
       <<<<"c","o","n","v","e","r","t","(","i","n","t",","," ","l",".","s","t","a","r","t","C","o","o","r","d","i","n","a","t","e",")">>,
          <<"c","a","s","t","(","l",".","s","t","a","r","t","c","o","o","r","d","i","n","a","t","e"," ","a","s"," ","v","a","r","c","h","a","r",")">>>>,
       <<<<"c","o","n","v","e","r","t","(","i","n","t",","," ","l",".","e","n","d","C","o","o","r","d","i","n","a","t","e",")">>,
          <<"c","a","s","t","(","l",".","e","n","d","c","o","o","r","d","i","n","a","t","e"," ","a","s"," ","v","a","r","c","h","a","r",")">>>>,
       <<<<"c","o","n","v","e","r","t","(","i","n","t",","," ","s","g","t",".","p","o","i","n","t","C","o","o","r","d","i","n","a","t","e",")">>,
          <<"c","a","s","t","(","s","g","t",".","p","o","i","n","t","C","o","o","r","d","i","n","a","t","e"," ","a","s"," ","v","a","r","c","h","a","r",")">>>>,
       <<<<"c","o","n","v","e","r","t","(","c","h","a","r","(","2","0",")",","," ","g","e","t","d","a","t","e","(",")",","," ","1","0","0",")">>,
          <<"c","u","r","r","e","n","t","_","d","a","t","e">>>>,
       <<<<"c","o","n","v","e","r","t","(","v","a","r","c","h","a","r","(","2",")",","," ","t",".","s","t","a","g","e",")">>,
          <<"t",".","s","t","a","g","e",":",":","t","e","x","t">>>>,
       <<<<"c","o","n","v","e","r","t","(","c","h","a","r","(","2","0",")",","," ","c","r","e","a","t","i","o","n","_","d","a","t","e",","," ","1","0","0",")">>,
          <<"t","o","_","c","h","a","r","(","c","r","e","a","t","i","o","n","_","d","a","t","e",","," ","'","M","o","n"," ","D","D"," ","Y","Y","Y","Y"," ","H","H",":","M","M","P","M","'",")">>>>,
       <<<<"c","o","n","v","e","r","t","(","c","h","a","r","(","2","0",")",","," ","m","o","d","i","f","i","c","a","t","i","o","n","_","d","a","t","e",","," ","1","0","0",")">>,
          <<"t","o","_","c","h","a","r","(","m","o","d","i","f","i","c","a","t","i","o","n","_","d","a","t","e",","," ","'","M","o","n"," ","D","D"," ","Y","Y","Y","Y"," ","H","H",":","M","M","P","M","'",")">>>>,
       <<<<"c","o","n","v","e","r","t","(","c","h","a","r","(","2","0",")",","," ","a",".","c","r","e","a","t","i","o","n","_","d","a","t","e",","," ","1","0","0",")">>,
          <<"t","o","_","c","h","a","r","(","a",".","c","r","e","a","t","i","o","n","_","d","a","t","e",","," ","'","M","o","n"," ","D","D"," ","Y","Y","Y","Y"," ","H","H",":","M","M","P","M","'",")">>>>,
       <<<<"c","o","n","v","e","r","t","(","c","h","a","r","(","2","0",")",","," ","a",".","m","o","d","i","f","i","c","a","t","i","o","n","_","d","a","t","e",","," ","1","0","0",")">>,
          <<"t","o","_","c","h","a","r","(","a",".","m","o","d","i","f","i","c","a","t","i","o","n","_","d","a","t","e",","," ","'","M","o","n"," ","D","D"," ","Y","Y","Y","Y"," ","H","H",":","M","M","P","M","'",")">>>>,
       <<<<"c","o","n","v","e","r","t","(","c","h","a","r","(","2","0",")",","," ","b",".","c","r","e","a","t","i","o","n","_","d","a","t","e",","," ","1","0","0",")">>,
          <<"t","o","_","c","h","a","r","(","b",".","c","r","e","a","t","i","o","n","_","d","a","t","e",","," ","'","M","o","n"," ","D","D"," ","Y","Y","Y","Y"," ","H","H",":","M","M","P","M","'",")">>>>,
       <<<<"c","o","n","v","e","r","t","(","c","h","a","r","(","2","0",")",","," ","b",".","m","o","d","i","f","i","c","a","t","i","o","n","_","d","a","t","e",","," ","1","0","0",")">>,
          <<"t","o","_","c","h","a","r","(","b",".","m","o","d","i","f","i","c","a","t","i","o","n","_","d","a","t","e",","," ","'","M","o","n"," ","D","D"," ","Y","Y","Y","Y"," ","H","H",":","M","M","P","M","'",")">>>>,
       <<<<"c","o","n","v","e","r","t","(","c","h","a","r","(","2","0",")",","," ","e",".","c","r","e","a","t","i","o","n","_","d","a","t","e",","," ","1","0","0",")">>,
          <<"t","o","_","c","h","a","r","(","e",".","c","r","e","a","t","i","o","n","_","d","a","t","e",","," ","'","M","o","n"," ","D","D"," ","Y","Y","Y","Y"," ","H","H",":","M","M","P","M","'",")">>>>,
       <<<<"c","o","n","v","e","r","t","(","c","h","a","r","(","2","0",")",","," ","e",".","m","o","d","i","f","i","c","a","t","i","o","n","_","d","a","t","e",","," ","1","0","0",")">>,
          <<"t","o","_","c","h","a","r","(","e",".","m","o","d","i","f","i","c","a","t","i","o","n","_","d","a","t","e",","," ","'","M","o","n"," ","D","D"," ","Y","Y","Y","Y"," ","H","H",":","M","M","P","M","'",")">>>>,
       <<<<"c","o","n","v","e","r","t","(","c","h","a","r","(","2","0",")",","," ","h",".","c","r","e","a","t","i","o","n","_","d","a","t","e",","," ","1","0","0",")">>,
          <<"t","o","_","c","h","a","r","(","h",".","c","r","e","a","t","i","o","n","_","d","a","t","e",","," ","'","M","o","n"," ","D","D"," ","Y","Y","Y","Y"," ","H","H",":","M","M","P","M","'",")">>>>,
       <<<<"c","o","n","v","e","r","t","(","c","h","a","r","(","2","0",")",","," ","h",".","m","o","d","i","f","i","c","a","t","i","o","n","_","d","a","t","e",","," ","1","0","0",")">>,
          <<"t","o","_","c","h","a","r","(","h",".","m","o","d","i","f","i","c","a","t","i","o","n","_","d","a","t","e",","," ","'","M","o","n"," ","D","D"," ","Y","Y","Y","Y"," ","H","H",":","M","M","P","M","'",")">>>>,
       <<<<"c","o","n","v","e","r","t","(","c","h","a","r","(","2","0",")",","," ","m",".","c","r","e","a","t","i","o","n","_","d","a","t","e",","," ","1","0","0",")">>,
          <<"t","o","_","c","h","a","r","(","m",".","c","r","e","a","t","i","o","n","_","d","a","t","e",","," ","'","M","o","n"," ","D","D"," ","Y","Y","Y","Y"," ","H","H",":","M","M","P","M","'",")">>>>,
       <<<<"c","o","n","v","e","r","t","(","c","h","a","r","(","2","0",")",","," ","m",".","m","o","d","i","f","i","c","a","t","i","o","n","_","d","a","t","e",","," ","1","0","0",")">>,
          <<"t","o","_","c","h","a","r","(","m",".","m","o","d","i","f","i","c","a","t","i","o","n","_","d","a","t","e",","," ","'","M","o","n"," ","D","D"," ","Y","Y","Y","Y"," ","H","H",":","M","M","P","M","'",")">>>>,
       <<<<"c","o","n","v","e","r","t","(","c","h","a","r","(","2","0",")",","," ","n",".","c","r","e","a","t","i","o","n","_","d","a","t","e",","," ","1","0","0",")">>,
          <<"t","o","_","c","h","a","r","(","n",".","c","r","e","a","t","i","o","n","_","d","a","t","e",","," ","'","M","o","n"," ","D","D"," ","Y","Y","Y","Y"," ","H","H",":","M","M","P","M","'",")">>>>,
       <<<<"c","o","n","v","e","r","t","(","c","h","a","r","(","2","0",")",","," ","n",".","m","o","d","i","f","i","c","a","t","i","o","n","_","d","a","t","e",","," ","1","0","0",")">>,
          <<"t","o","_","c","h","a","r","(","n",".","m","o","d","i","f","i","c","a","t","i","o","n","_","d","a","t","e",","," ","'","M","o","n"," ","D","D"," ","Y","Y","Y","Y"," ","H","H",":","M","M","P","M","'",")">>>>,
       <<<<"c","o","n","v","e","r","t","(","c","h","a","r","(","2","0",")",","," ","p",".","c","r","e","a","t","i","o","n","_","d","a","t","e",","," ","1","0","0",")">>,
          <<"t","o","_","c","h","a","r","(","p",".","c","r","e","a","t","i","o","n","_","d","a","t","e",","," ","'","M","o","n"," ","D","D"," ","Y","Y","Y","Y"," ","H","H",":","M","M","P","M","'",")">>>>,
       <<<<"c","o","n","v","e","r","t","(","c","h","a","r","(","2","0",")",","," ","p",".","m","o","d","i","f","i","c","a","t","i","o","n","_","d","a","t","e",","," ","1","0","0",")">>,
          <<"t","o","_","c","h","a","r","(","p",".","m","o","d","i","f","i","c","a","t","i","o","n","_","d","a","t","e",","," ","'","M","o","n"," ","D","D"," ","Y","Y","Y","Y"," ","H","H",":","M","M","P","M","'",")">>>>,
       <<<<"c","o","n","v","e","r","t","(","c","h","a","r","(","2","0",")",","," ","r",".","c","r","e","a","t","i","o","n","_","d","a","t","e",","," ","1","0","0",")">>,
          <<"t","o","_","c","h","a","r","(","r",".","c","r","e","a","t","i","o","n","_","d","a","t","e",","," ","'","M","o","n"," ","D","D"," ","Y","Y","Y","Y"," ","H","H",":","M","M","P","M","'",")">>>>,
       <<<<"c","o","n","v","e","r","t","(","c","h","a","r","(","2","0",")",","," ","r",".","m","o","d","i","f","i","c","a","t","i","o","n","_","d","a","t","e",","," ","1","0","0",")">>,
          <<"t","o","_","c","h","a","r","(","r",".","m","o","d","i","f","i","c","a","t","i","o","n","_","d","a","t","e",","," ","'","M","o","n"," ","D","D"," ","Y","Y","Y","Y"," ","H","H",":","M","M","P","M","'",")">>>>,
       <<<<"c","o","n","v","e","r","t","(","c","h","a","r","(","2","0",")",","," ","s",".","c","r","e","a","t","i","o","n","_","d","a","t","e",","," ","1","0","0",")">>,
          <<"t","o","_","c","h","a","r","(","s",".","c","r","e","a","t","i","o","n","_","d","a","t","e",","," ","'","M","o","n"," ","D","D"," ","Y","Y","Y","Y"," ","H","H",":","M","M","P","M","'",")">>>>,
       <<<<"c","o","n","v","e","r","t","(","c","h","a","r","(","2","0",")",","," ","s",".","m","o","d","i","f","i","c","a","t","i","o","n","_","d","a","t","e",","," ","1","0","0",")">>,
          <<"t","o","_","c","h","a","r","(","s",".","m","o","d","i","f","i","c","a","t","i","o","n","_","d","a","t","e",","," ","'","M","o","n"," ","D","D"," ","Y","Y","Y","Y"," ","H","H",":","M","M","P","M","'",")">>>>,
       <<<<"c","o","n","v","e","r","t","(","c","h","a","r","(","2","0",")",","," ","t",".","c","r","e","a","t","i","o","n","_","d","a","t","e",","," ","1","0","0",")">>,
          <<"t","o","_","c","h","a","r","(","t",".","c","r","e","a","t","i","o","n","_","d","a","t","e",","," ","'","M","o","n"," ","D","D"," ","Y","Y","Y","Y"," ","H","H",":","M","M","P","M","'",")">>>>,
       <<<<"c","o","n","v","e","r","t","(","c","h","a","r","(","2","0",")",","," ","t",".","m","o","d","i","f","i","c","a","t","i","o","n","_","d","a","t","e",","," ","1","0","0",")">>,
          <<"t","o","_","c","h","a","r","(","t",".","m","o","d","i","f","i","c","a","t","i","o","n","_","d","a","t","e",","," ","'","M","o","n"," ","D","D"," ","Y","Y","Y","Y"," ","H","H",":","M","M","P","M","'",")">>>>,
       <<<<"c","o","n","v","e","r","t","(","c","h","a","r","(","2","0",")",","," ","v","a",".","c","r","e","a","t","i","o","n","_","d","a","t","e",","," ","1","0","0",")">>,
          <<"t","o","_","c","h","a","r","(","v","a",".","c","r","e","a","t","i","o","n","_","d","a","t","e",","," ","'","M","o","n"," ","D","D"," ","Y","Y","Y","Y"," ","H","H",":","M","M","P","M","'",")">>>>,
       <<<<"c","o","n","v","e","r","t","(","c","h","a","r","(","2","0",")",","," ","v","a",".","m","o","d","i","f","i","c","a","t","i","o","n","_","d","a","t","e",","," ","1","0","0",")">>,
          <<"t","o","_","c","h","a","r","(","v","a",".","m","o","d","i","f","i","c","a","t","i","o","n","_","d","a","t","e",","," ","'","M","o","n"," ","D","D"," ","Y","Y","Y","Y"," ","H","H",":","M","M","P","M","'",")">>>>,
       <<<<"g","e","t","d","a","t","e","(",")">>,
          <<"c","u","r","r","e","n","t","_","d","a","t","e">>>>,
       <<<<"d","a","t","e","p","a","r","t","(","y","e","a","r",",">>,
          <<"d","a","t","e","_","p","a","r","t","(","'","y","e","a","r","'",",">>>>,
       <<<<"d","a","t","e","p","a","r","t","(","m","o","n","t","h",",">>,
          <<"d","a","t","e","_","p","a","r","t","(","'","m","o","n","t","h","'",",">>>>,
       <<<<"s","t","r","(","o",".","c","m","O","f","f","s","e","t",",","1","0",",","2",")">>,
          <<"t","o","_","c","h","a","r","(","o",".","c","m","O","f","f","s","e","t",","," ","'","9","9","9",".","9","9","'",")">>>>,
       <<<<"s","t","r","(","b","r",".","y","e","a","r",")"," ","+"," ","'"," ","'"," ","+"," ">>,
          <<"b","r",".","y","e","a","r"," ","|","|"," ","'"," ","'"," ","|","|"," ">>>>,
       <<<<"c","o","m","m","o","n","N","a","m","e"," ","+"," ","'">>,
          <<"c","o","m","m","o","n","N","a","m","e"," ","|","|"," ","'">>>>,
       <<<<"'","n","o"," ","'">>,
          <<"'","n","o"," ","'",":",":","t","e","x","t">>>>,
       <<<<"i","d","e","n","t","i","t","y","(","1","0",")">>,
          <<"r","o","w","_","n","u","m","b","e","r","(",")"," ","o","v","e","r","(",")">>>>,
       <<<<"c","l","u","s","t","e","r","e","d"," ","i","n","d","e","x">>,
          <<"i","n","d","e","x">>>>,
       <<<<".",".">>,
          <<".">>>> >>

\* lines 359-360
BeRulesLast ==
    << <<<<"'","E","'"," ","a","s"," ","s","o","u","r","c","e">>,
          <<"'","E","'",":",":","t","e","x","t"," ","a","s"," ","s","o","u","r","c","e">>>>,
       <<<<"'","L","'"," ","a","s"," ","s","o","u","r","c","e">>,
          <<"'","L","'",":",":","t","e","x","t"," ","a","s"," ","s","o","u","r","c","e">>>> >>

\* lines 343-353: the second 'from' of a delete becomes USING
DeleteUsingStep(cmd1) ==
    LET Splice(deleteIdx, from2) ==
            IF deleteIdx >= 0
            THEN IF from2 > deleteIdx /\ ~Contains(Lower(Slice(cmd1, 0, from2)), <<"s","e","l","e","c","t">>)
                 THEN Slice(cmd1, 0, from2) \o <<"U","S","I","N","G">> \o SliceFrom(cmd1, from2 + 4)
                 ELSE cmd1
            ELSE cmd1
        OrUpper(from1, f) == IF f < 0 THEN Find(cmd1, <<"F","R","O","M">>, from1 + 1) ELSE f
        Second(deleteIdx, from1) ==
            Splice(deleteIdx, OrUpper(from1, Find(cmd1, <<"f","r","o","m">>, from1 + 1)))
        First(cmdlower, deleteIdx) == Second(deleteIdx, Find(cmdlower, <<"f","r","o","m">>, deleteIdx))
        Delete(cmdlower) == First(cmdlower, Find(cmdlower, <<"d","e","l","e","t","e">>, 0))
    IN  Delete(Lower(cmd1))

\* lines 217-362
translate_be(cmd) ==
    Return(ReplaceEach(
        DeleteUsingStep(ReplaceEach(
            NullStep(ReplaceEach(SchemaRewrite(ReplaceEach(cmd, BeTempTableRules, 1)),
                                 BeCopiedRules, 1)),
            BeRulesSecond, 1)),
        BeRulesLast, 1))

-----------------------------------------------------------------------------
(* Calls of translate and translate_be *)

\* how many clauses follow the head of a statement given to the translators
MaxParts == 2

\* the statements given to the translators: a head followed by clauses
StmtHeads ==
    { <<"s","e","l","e","c","t"," ","a","=","b">>,
      <<"S","E","L","E","C","T"," ","x",","," ","y"," ","="," ","z">>,
      <<"u","p","d","a","t","e"," ","t"," ","s","e","t"," ","a"," ","="," ","b">>,
      <<"U","P","D","A","T","E"," ","t"," ","s","e","t"," ","n"," ","=","c">>,
      <<"e","x","e","c"," ","p">>,
      <<"d","e","l","e","t","e">> }

StmtParts ==
    { <<" ","f","r","o","m"," ","t">>,
      <<" ","F","R","O","M"," ","t">>,
      <<" ","w","h","e","r","e"," ","k"," ","="," ","j"," ","a","n","d"," ","e","x","i","s","t","s"," ","(","s","e","l","e","c","t"," ","1"," ","f","r","o","m"," ","u",")">>,
      <<" ","W","H","E","R","E"," ","n"," ","="," ","\"","K","i","t","\"">>,
      <<" ","4","2">>,
      <<" ","s","e","l","e","c","t"," ","q">>,
      <<","," ","d","=","e">> }

RECURSIVE Concat(_)
Concat(ss) == IF ss = <<>> THEN <<>> ELSE Head(ss) \o Concat(Tail(ss))

\* whole statements given to the translators
StmtWhole ==
    { <<"s","e","l","e","c","t"," ","*"," ","f","r","o","m"," ","t"," ","w","h","e","r","e"," ","s","y","m","b","o","l"," ","="," ","'","P","a","x","6","'">>,
      <<"S","E","L","E","C","T"," ","a"," ","F","R","O","M"," ","t"," ","W","H","E","R","E"," ","n"," ","="," ","'","K","i","t","'"," ","a","n","d"," ","s"," ","I","N"," ","(","'","A","'",")"," ","a","n","d"," ","k"," ","i","n"," ","(","s","e","l","e","c","t"," ","k"," ","f","r","o","m"," ","u"," ","w","h","e","r","e"," ","j"," ","="," ","1",")">>,
      <<"s","e","l","e","c","t"," ","*"," ","f","r","o","m"," ","t"," ","w","h","e","r","e"," ","x"," ","!","="," ","N","U","L","L">>,
      <<"s","e","l","e","c","t"," ","*"," ","f","r","o","m"," ","t"," ","w","h","e","r","e"," ","x"," ","="," ","N","U","L","L">>,
      <<"u","p","d","a","t","e"," ","t"," ","s","e","t"," ","n"," ","="," ","N","U","L","L">>,
      <<"u","p","d","a","t","e","\t","t"," ","s","e","t"," ","n"," ","="," ","N","U","L","L">>,
      <<"s","e","l","e","c","t"," ","a"," ","f","r","o","m"," ","t"," ","w","h","e","r","e"," ","l","a","s","t","_","u","p","d","a","t","e"," ","="," ","N","U","L","L">>,
      <<"e","x","e","c"," ","p","r","o","c"," ","4","2">>,
      <<"s","e","l","e","c","t"," ","a"," ","f","r","o","m"," ","t"," ","w","h","e","r","e"," ","n"," ","="," ","'","e","x","e","c"," ","p"," ","1","'">>,
      <<"s","e","l","e","c","t"," ","a"," ","f","r","o","m"," ","t"," ","w","h","e","r","e"," ","s"," ","i","n"," ","(","'","A","'",",","'","b","'",")"," ","a","n","d"," ","u"," ","n","o","t"," ","i","n"," ","(","'","C","'",")">>,
      <<"s","e","l","e","c","t"," ","s"," ","i","n"," ","(","'","A","'",")"," ","f","r","o","m"," ","t"," ","w","h","e","r","e"," ","u"," ","N","O","T"," ","I","N"," ","(","'","B","'",")">>,
      <<"s","e","l","e","c","t"," ","a"," ","i","n","t","o"," ","#","t"," ","f","r","o","m"," ","b">>,
      <<"i","n","s","e","r","t"," ","i","n","t","o"," ","#","t"," ","s","e","l","e","c","t"," ","1">>,
      <<"d","r","o","p"," ","t","a","b","l","e"," ","#","t">>,
      <<"s","e","l","e","c","t"," ","*"," ","f","r","o","m"," ","#","t">>,
      <<"d","e","l","e","t","e"," ","f","r","o","m"," ","a"," ","f","r","o","m"," ","b"," ","w","h","e","r","e"," ","a",".","k"," ","="," ","b",".","k">>,
      <<"d","e","l","e","t","e"," ","f","r","o","m"," ","a"," ","w","h","e","r","e"," ","k"," ","i","n"," ","(","s","e","l","e","c","t"," ","k"," ","f","r","o","m"," ","b",")">>,
      <<"d","e","l","e","t","e"," ","f","r","o","m"," ","a">>,
      <<"D","E","L","E","T","E"," ","F","R","O","M"," ","a"," ","F","R","O","M"," ","b"," ","W","H","E","R","E"," ","b",".","k"," ","i","n"," ","(","s","e","l","e","c","t"," ","k"," ","f","r","o","m"," ","c",")">>,
      <<"s","e","l","e","c","t"," ","*"," ","f","r","o","m"," ","i","m","s","r",".",".","L","a","b","e","l">>,
      <<"s","e","l","e","c","t"," ","'","x",".",".",".","'"," ","f","r","o","m"," ","t">>,
      <<"d","r","o","p"," ","t","a","b","l","e"," ","#","t"," ","s","e","l","e","c","t"," ","a"," ","i","n","t","o"," ","#","t"," ","f","r","o","m"," ","b"," ","i","n","s","e","r","t"," ","i","n","t","o"," ","#","t"," ","s","e","l","e","c","t"," ","c"," ","f","r","o","m"," ","#","t">>,
      <<"s","e","l","e","c","t"," ","a",".","b",".",".",".",".","c"," ","f","r","o","m"," ","d">>,
      <<"S","E","L","E","C","T"," ","a"," ","I","N","T","O"," ","#","t"," ","F","R","O","M"," ","b">> }

TrInputs ==
    { h \o Concat(ps) : h \in StmtHeads,
                        ps \in UNION {[1..n -> StmtParts] : n \in 0..MaxParts} }
        \cup StmtWhole

TrInit ==
    /\ trIn \in TrInputs
    /\ trPc = "call"
    /\ trFn = "none"
    /\ trCmd3 = Return(<<>>)
    /\ trOut = Return(<<>>)
    /\ GcIdle
    /\ DbmIdle
    /\ SqlIdle
    /\ RowIdle
    /\ StatsIdle

\* translate(trIn)
TrTranslate ==
    /\ trPc = "call"
    /\ trFn' = "translate"
    /\ trCmd3' = TranslateCmd3(trIn)
    /\ trOut' = translate(trIn)
    /\ trPc' = "done"
    /\ UNCHANGED trIn
    /\ UNCHANGED trFrame

\* translate_be(trIn)
TrTranslateBe ==
    /\ trPc = "call"
    /\ trFn' = "translate_be"
    /\ trCmd3' = Return(trIn)
    /\ trOut' = translate_be(trIn)
    /\ trPc' = "done"
    /\ UNCHANGED trIn
    /\ UNCHANGED trFrame

TrNext == TrTranslate \/ TrTranslateBe

SpecTr == TrInit /\ [][TrNext]_vars

-----------------------------------------------------------------------------
(* Claims about the translators *)

NoRuleOld(s, rules) == \A i \in DOMAIN rules : ~Contains(s, rules[i][1])

\* a statement in which no rewriting rule of the function finds its trigger
NoRuleMatches(fn, s) ==
    IF fn = "translate"
    THEN /\ \A i \in DOMAIN s : s[i] \notin {"\"", "=", "("}
         /\ ~Contains(Lower(s), <<"e","x","e","c"," ">>)
         /\ NoRuleOld(s, TranslateRules)
    ELSE /\ \A i \in DOMAIN s : s[i] \notin {"#", "="}
         /\ ~Contains(Lower(s), <<"d","e","l","e","t","e">>)
         /\ NoRuleOld(s, BeRulesFirst)
         /\ NoRuleOld(s, BeRulesSecond)
         /\ NoRuleOld(s, BeRulesLast)

\* C9: translate and translate_be return a string for every statement and never
\* raise, also for a statement with a rule's keyword in an unexpected shape (an
\* EXEC with a procedure name and no arguments); a statement in which no rule
\* finds its trigger is returned as it is.
C9_TranslatorsNeverRaise ==
    trPc = "done" =>
        /\ trOut.kind = "return"
        /\ NoRuleMatches(trFn, trIn) => trOut.value = trIn

\* the first occurrence of a keyword, in either letter case
FirstAnyCase(s, kw) == Find(Lower(s), kw, 0)

\* C10: the select-list rewrite of translate turns every 'alias = expression'
\* that ends before the first FROM keyword into 'expression as alias' and leaves
\* the text from the first FROM keyword on as it is; it changes nothing when the
\* first UPDATE keyword comes before the first SELECT keyword or when there is
\* no FROM keyword.
C10_RenameOnlyBeforeFirstFrom ==
    (trPc = "done" /\ trFn = "translate" /\ trOut.kind = "return") =>
        LET cmd3 == trCmd3.value
            out  == trOut.value
            f    == FirstAnyCase(cmd3, <<"f","r","o","m">>)
            u    == FirstAnyCase(cmd3, <<"u","p","d","a","t","e">>)
            sel  == FirstAnyCase(cmd3, <<"s","e","l","e","c","t">>)
        IN  /\ (f < 0 \/ (u >= 0 /\ sel >= 0 /\ u < sel)) => out = cmd3
            /\ f >= 0 =>
                  /\ Len(out) >= Len(cmd3) - f
                  /\ SliceFrom(out, Len(out) - (Len(cmd3) - f)) = SliceFrom(cmd3, f)
            /\ (f >= 0 /\ u < 0) => out = RenameLoop(cmd3, 0, 0, f)

\* the text 'cmd1' of translate before its '= NULL' step
CmdBeforeNull(cmd) ==
    ReplaceEach(ExecStep(Replace(cmd, <<"\"">>, <<"'">>)).value, TranslateRules, 1)

\* the text 'cmd1' of translate when its where section is reached
Cmd1Of(cmd) == NullStep(CmdBeforeNull(cmd))

\* the text of s from pos on, with every comparison  name = 'literal'  or
\* name != 'literal'  made case insensitive, left to right
RECURSIVE EqualsFolded(_, _)
EqualsFolded(s, pos) ==
    LET starts == {p \in pos..(Len(s) - 1) : EqualMatchAt(s, p).ok}
    IN  IF starts = {}
        THEN SliceFrom(s, pos)
        ELSE LET m == EqualMatchAt(s, MinOf(starts))
             IN  Slice(s, pos, m.start) \o m.g1 \o <<"l","o","w","e","r","(">> \o m.g2 \o <<")"," ">> \o m.g3
                    \o <<" ","'">> \o Lower(m.g4) \o <<"'">> \o EqualsFolded(s, m.stop)

\* the text 'cmd2' that the comparison loop of translate leaves
Cmd2Of(cmd1) ==
    IF FindKeyword(cmd1, <<"w","h","e","r","e">>, <<"W","H","E","R","E">>) >= 0
    THEN EqualLoop(cmd1, 0, FindKeyword(cmd1, <<"w","h","e","r","e">>, <<"W","H","E","R","E">>))
    ELSE cmd1

\* C11: in the text that follows the first where/WHERE keyword, translate turns
\* every comparison  name = 'literal'  and  name != 'literal'  into
\* lower(name) = 'literal in lower case', left to right; the text before that
\* keyword and between the comparisons is kept as it is, and so is a comparison
\* whose right-hand side is not quoted.
C11_ComparisonsAfterFirstWhere ==
    (trPc = "done" /\ trFn = "translate" /\ trOut.kind = "return") =>
        LET cmd1 == Cmd1Of(trIn)
            w    == FirstAnyCase(cmd1, <<"w","h","e","r","e">>)
        IN  Cmd2Of(cmd1) = IF w >= 0 THEN Slice(cmd1, 0, w) \o EqualsFolded(cmd1, w) ELSE cmd1

\* kw (in lower case) occurs in s as a word of its own, in either letter case
HasKeyword(s, kw) ==
    \E p \in 0..(Len(s) - Len(kw)) :
        /\ OccursAt(Lower(s), kw, p)
        /\ CharAt(s, p - 1) \notin WordChars
        /\ CharAt(s, p + Len(kw)) \notin WordChars

\* C12: translate rewrites '!= NULL' to 'is not null' in every statement; it
\* rewrites '= NULL' to 'is null' exactly when the statement has no UPDATE
\* keyword, in any letter case and whatever whitespace follows the keyword; in a
\* statement with an UPDATE keyword every '= NULL' stays as it is.
C12_NullRewriteUnlessUpdate ==
    (trPc = "done" /\ trFn = "translate" /\ trOut.kind = "return") =>
        LET before == CmdBeforeNull(trIn)
            after  == Cmd1Of(trIn)
        IN  /\ ~Contains(after, <<"!","="," ","N","U","L","L">>)
            /\ after = IF HasKeyword(before, <<"u","p","d","a","t","e">>)
                       THEN before
                       ELSE Replace(before, <<"="," ","N","U","L","L">>, <<"i","s"," ","n","u","l","l">>)

\* the statement starts with the keyword EXEC, in either letter case
BeginsWithExec(s) ==
    /\ OccursAt(Lower(Lstrip(s)), <<"e","x","e","c">>, 0)
    /\ CharAt(Lstrip(s), 4) \in Whitespace

\* C13: translate turns a statement into 'select * from <name> (<args>);'
\* exactly when the statement begins with the keyword EXEC, in either letter
\* case, followed by a procedure name and its arguments; a statement that does
\* not begin with EXEC, such as one with the text 'exec ' inside a literal, is
\* not altered by this rule.
C13_ExecOnlyWhenLeading ==
    (trPc = "done" /\ trFn = "translate") =>
        LET cmd1 == Replace(trIn, <<"\"">>, <<"'">>)
            e    == ExecStep(cmd1)
            rest == Lstrip(SliceFrom(Lstrip(cmd1), 4))
            sep  == Find(rest, <<" ">>, 0)
        IN  /\ ~BeginsWithExec(cmd1) => e = Return(cmd1)
            /\ (BeginsWithExec(cmd1) /\ sep >= 0) =>
                  e = Return(<<"s","e","l","e","c","t"," ","*"," ","f","r","o","m"," ">> \o Slice(rest, 0, sep) \o <<" ","(">>
                             \o SliceFrom(rest, sep + 1) \o <<")",";">>)

\* the text of s from pos on, with every  name in ('literal', ...)  and
\* name not in ('literal', ...)  made case insensitive, left to right
RECURSIVE InsFolded(_, _)
InsFolded(s, pos) ==
    LET starts == {p \in pos..(Len(s) - 1) : InMatchAt(s, p).ok}
    IN  IF starts = {}
        THEN SliceFrom(s, pos)
        ELSE LET m == InMatchAt(s, MinOf(starts))
             IN  Slice(s, pos, m.start) \o m.g1 \o <<"l","o","w","e","r","(">> \o m.g2 \o <<")"," ">>
                    \o (IF m.hasNot THEN <<"n","o","t"," ","i","n">> ELSE <<"i","n">>)
                    \o <<" ","(">> \o Lower(m.g5) \o <<")">> \o InsFolded(s, m.stop)

\* C14: in the text that follows the first where/WHERE keyword, translate turns
\* every  name in ('literal', ...)  into  lower(name) in (the list in lower
\* case)  and every  name not in (...)  into  lower(name) not in (the list in
\* lower case); a NOT is kept where there is one and none is added where there
\* is none, and an IN list before the WHERE keyword stays as it is.
C14_InListsAfterFirstWhere ==
    (trPc = "done" /\ trFn = "translate" /\ trOut.kind = "return") =>
        LET cmd2 == Cmd2Of(Cmd1Of(trIn))
            w    == FirstAnyCase(cmd2, <<"w","h","e","r","e">>)
        IN  trCmd3.value = IF w >= 0 THEN Slice(cmd2, 0, w) \o InsFolded(cmd2, w) ELSE cmd2

\* the number of places of s where pat occurs
CountOf(s, pat) == Cardinality({p \in 0..(Len(s) - Len(pat)) : OccursAt(s, pat, p)})

CmdBeforeDelete(cmd) ==
    ReplaceEach(
        NullStep(ReplaceEach(SchemaRewrite(ReplaceEach(cmd, BeTempTableRules, 1)),
                             BeCopiedRules, 1)),
        BeRulesSecond, 1)

\* the second FROM of a DELETE replaced by USING, with the keywords taken in
\* either letter case
UsingForSecondFrom(s) ==
    LET low    == Lower(s)
        delete == Find(low, <<"d","e","l","e","t","e">>, 0)
        from1  == Find(low, <<"f","r","o","m">>, delete)
        from2  == Find(low, <<"f","r","o","m">>, from1 + 1)
    IN  IF /\ delete >= 0
           /\ from1 >= 0
           /\ from2 >= 0
           /\ ~Contains(Slice(low, 0, from2), <<"s","e","l","e","c","t">>)
        THEN Slice(s, 0, from2) \o <<"U","S","I","N","G">> \o SliceFrom(s, from2 + 4)
        ELSE s

\* C16: translate_be replaces the second FROM keyword of a DELETE statement by
\* USING exactly when there is a second FROM keyword after the first FROM of
\* the DELETE and no SELECT keyword before that second FROM; without a DELETE,
\* with a single FROM, or with a SELECT before the second FROM it replaces no
\* FROM keyword. Only that one keyword is replaced, the rest of the statement
\* stays as it is.
C16_SecondFromBecomesUsing ==
    (trPc = "done" /\ trFn = "translate_be") =>
        DeleteUsingStep(CmdBeforeDelete(trIn)) = UsingForSecondFrom(CmdBeforeDelete(trIn))

\* the text 'cmd1' of translate_be when its schema rewrite is reached
CmdBeforeSchema(cmd) == ReplaceEach(cmd, BeTempTableRules, 1)

\* C17 as stated: the schema rewrite of translate_be ('..' becomes '.') is
\* idempotent on every text: applied to a text that has been through it, it
\* returns that text unchanged, and a rewritten text contains no '..'.
C17_SchemaRewriteIdempotent ==
    (trPc = "done" /\ trFn = "translate_be") =>
        LET once == SchemaRewrite(CmdBeforeSchema(trIn))
        IN  /\ SchemaRewrite(once) = once
            /\ ~Contains(once, <<".",".">>)

\* C17: on a text without three dots in a row the schema rewrite of
\* translate_be ('..' becomes '.') is idempotent: applied to a text that has
\* been through it, it returns that text unchanged, and the rewritten text
\* contains no '..'.
C17_SchemaRewriteIdempotentUpToTwoDots ==
    (trPc = "done" /\ trFn = "translate_be" /\ ~Contains(CmdBeforeSchema(trIn), <<".",".",".">>)) =>
        LET once == SchemaRewrite(CmdBeforeSchema(trIn))
        IN  /\ SchemaRewrite(once) = once
            /\ ~Contains(once, <<".",".">>)

\* a statement with a schema..table name has been translated
C17_Witness ==
    /\ trPc = "done"
    /\ trFn = "translate_be"
    /\ Contains(CmdBeforeSchema(trIn), <<".",".">>)
    /\ ~Contains(CmdBeforeSchema(trIn), <<".",".",".">>)
    /\ SchemaRewrite(CmdBeforeSchema(trIn)) # CmdBeforeSchema(trIn)
    /\ Contains(trOut.value, <<"i","m","s","r",".","L","a","b","e","l">>)
-----------------------------------------------------------------------------
(* The batch runner of pg_db.py: sql (571-649), with __getDbManager (68-76),
   useOneConnection (537-540), setReturnAsSybase (521-529) and commit
   (735-738) *)

\* how many calls of the pg_db functions are made
MaxPgCalls == 3

\* how many of them are calls of sql
MaxSqlCalls == 1

\* Python's truth value of an argument
Truthy(v) ==
    CASE v.py = "None" -> FALSE
      [] v.py = "absent" -> FALSE
      [] v.py = "int" -> v.v # 0
      [] v.py = "str" -> v.s # <<>>
      [] v.py = "list" -> v.items # <<>>
      [] OTHER -> TRUE

\* the items a for loop gets from a tuple or a list
Iterate(v) ==
    CASE v.py = "tuple" -> <<v.first, v.second>>
      [] v.py = "list" -> v.items
      [] OTHER -> <<>>

DigitText(d) == <<<<"0","1","2","3","4","5","6","7","8","9">>[d + 1]>>

RECURSIVE NatToText(_)
NatToText(n) == IF n < 10 THEN DigitText(n) ELSE NatToText(n \div 10) \o DigitText(n % 10)

\* '%d' % n
IntToText(n) == IF n < 0 THEN <<"-">> \o NatToText(0 - n) ELSE NatToText(n)

\* the module-level 'password', lines 41-44
PgPassword == "mgdpub"

\* dbm.setReturnAsSybase(flag), called by line 75: it is not a method of
\* dbManager.py, whose result-shaping switch is named returnAsMGI
setReturnAsSybase(mgr, flag) == [mgr EXCEPT !.returnAsMGI = flag]

NameError(name) == [exc |-> "NameError", msg |-> "global name is not defined", name |-> name]

AttributeError(name) ==
    [exc |-> "AttributeError", msg |-> "object has no attribute", name |-> name]

UnboundLocalError(name) ==
    [exc |-> "UnboundLocalError", msg |-> "local variable referenced before assignment",
     name |-> name]

\* lines 68-76: dbManager.py defines postgresManager and no mysqlManager, and
\* for any other type line 74 reads dbmType before it was assigned
getDbManager(flag) ==
    LET Made(r) == IF r.kind = "raise" THEN r ELSE Return(setReturnAsSybase(r.value, flag))
    IN  IF targetDatabaseType = <<"p","o","s","t","g","r","e","s">>
        THEN Made(dbManager_init(PgPassword, "None"))
        ELSE IF targetDatabaseType = <<"m","y","s","q","l">>
        THEN Raise(AttributeError("mysqlManager"))
        ELSE Raise(UnboundLocalError("dbmType"))

\* dbManager.py 300-319: postgresManager.executeCopyFrom, where copy_from
\* succeeds or not. No connection is acquired here, and the except branch
\* names a variable cmd that the method does not have.
executeCopyFrom(mgr, copied) ==
    IF mgr.sharedConnection = 0
    THEN [conn |-> 0, issued |-> <<>>, result |-> Raise(AttributeError("cursor"))]
    ELSE IF copied
    THEN [conn |-> mgr.sharedConnection, issued |-> <<"cursor", "cursor.copy_from">>,
          result |-> Return(PyNone)]
    ELSE [conn |-> mgr.sharedConnection,
          issued |-> <<"cursor", "cursor.copy_from", "rollback", "cursor.close">>,
          result |-> Raise(NameError("cmd"))]

\* the choice without the shared manager: every call constructs its own
ChooseDbManagerAlwaysFresh ==
    [dbm |-> Len(managers) + 1, constructed |-> TRUE]

\* lines 574-579 of sql, 378-383 of executeCopyFrom: the manager the call
\* uses, and whether it was constructed for the call
ChooseDbManager ==
    IF ~onlyOneConnection \/ sharedDbManager = 0
    THEN [dbm |-> Len(managers) + 1, constructed |-> TRUE]
    ELSE [dbm |-> sharedDbManager, constructed |-> FALSE]

\* lines 581-586
RowCountKw(kw) ==
    IF kw.py = "absent" THEN PyNone
    ELSE IF kw = PyInt(0) THEN PyNone
    ELSE kw

\* the statements of a list taken from the last to the first
CommandListBackwards(command) ==
    IF command.py # "list" THEN <<command.s>>
    ELSE [k \in 1..Len(command.items) |-> command.items[Len(command.items) + 1 - k]]

\* lines 591-593
CommandList(command) == IF command.py # "list" THEN <<command.s>> ELSE command.items

\* lines 595-596
ParserList(parser, n) == IF parser.py # "list" THEN [k \in 1..n |-> parser] ELSE parser.items

\* lines 598-604: the row limits per statement, or the NameError of line 603
RowCountList(rowCount, n) ==
    IF ~Truthy(rowCount) THEN Return(rowCount)
    ELSE IF rowCount.py = "list" THEN Return(rowCount)
    ELSE IF rowCount.py # "int" THEN Raise(NameError("rowType"))
    ELSE Return(PyList([k \in 1..n |-> rowCount]))

PgError(msg) == [exc |-> "pg_db.error", msg |-> msg]

\* lines 606-609
CountCheck(command, parser, rowCount) ==
    IF Len(command) # Len(parser)
    THEN Raise(PgError("Mismatching counts in command and parser"))
    ELSE IF Truthy(rowCount) /\ Len(command) # Len(rowCount.items)
    THEN Raise(PgError("Mismatching counts in command and rowCount"))
    ELSE Return(PyNone)

\* lines 617-626: the statement with its row limit; i counts from 1
WithRowLimit(cmd, rowCount, i) ==
    LET selectPos == FindKeyword(cmd, <<"s","e","l","e","c","t">>, <<"S","E","L","E","C","T">>)
    IN  IF Truthy(rowCount) /\ Truthy(rowCount.items[i]) /\ selectPos >= 0
        THEN cmd \o <<" ","l","i","m","i","t"," ">> \o IntToText(rowCount.items[i].v)
        ELSE cmd

\* line 633: the text sql hands to dbm.execute
HandedToExecute(cmd, rowCount, i) == WithRowLimit(cmd, rowCount, i)

\* the arguments given to sql
SqlSelect == <<"s","e","l","e","c","t"," ","k"," ","="," ","_","M","a","r","k","e","r","_","k","e","y"," ","f","r","o","m"," ","m">>
SqlUpdate == <<"u","p","d","a","t","e"," ","m"," ","s","e","t"," ","n"," ","="," ","N","U","L","L">>

SqlCommands ==
    { PyStr(SqlSelect), PyStr(SqlUpdate), PyList(<<>>), PyList(<<SqlSelect>>),
      PyList(<<SqlUpdate, SqlSelect>>) }

SqlParsers ==
    { PyStr(<<"a","u","t","o">>), PyNone, PyFunc("f"), PyList(<<PyStr(<<"a","u","t","o">>)>>),
      PyList(<<PyFunc("f"), PyStr(<<"a","u","t","o">>)>>) }

SqlRowCounts ==
    { Absent, PyInt(0), PyInt(2), PyInt(-1), PyStr(<<"2">>), PyList(<<PyInt(0), PyInt(12)>>) }

\* what acquiring a connection ends with, under sql
SqlAcquisitions == {"connected", "Failed to get connection; giving up"}

\* the module after import, lines 47-52
SqlInit ==
    /\ onlyOneConnection = TRUE
    /\ sharedDbManager = 0
    /\ returnAsSybase = TRUE
    /\ sqlPc = "ready"
    /\ sqlArgs = NoArgs
    /\ sqlLocals = NoLocals
    /\ sqlLog = <<>>
    /\ sqlOut = Return(PyNone)
    /\ pgCalls = 0
    /\ targetDatabaseType = <<"p","o","s","t","g","r","e","s">>
    /\ pgHistory = <<>>
    /\ pending = {}
    /\ GcIdle
    /\ DbmIdle
    /\ TrIdle
    /\ RowIdle
    /\ StatsIdle

\* useOneConnection(onlyOne), lines 537-540: one assignment to the flag. The
\* flag has two values, so the switches need no cap and are not counted
PgUseOneConnection ==
    /\ sqlPc = "ready"
    /\ \E onlyOne \in BOOLEAN :
        /\ onlyOne # onlyOneConnection
        /\ onlyOneConnection' = onlyOne
    /\ UNCHANGED <<sharedDbManager, returnAsSybase, sqlPc, sqlArgs, sqlLocals, sqlLog, sqlOut,
                   pgCalls, targetDatabaseType, pgHistory, pending>>
    /\ UNCHANGED sqlFrame

\* setReturnAsSybase(flag), lines 521-529
PgSetReturnAsSybase ==
    /\ sqlPc = "ready"
    /\ pgCalls < MaxPgCalls
    /\ \E flag \in BOOLEAN :
        /\ flag # returnAsSybase
        /\ returnAsSybase' = flag
    /\ pgCalls' = pgCalls + 1
    /\ sqlArgs' = NoArgs
    /\ sqlLocals' = NoLocals
    /\ sqlLog' = <<>>
    /\ sqlOut' = Return(PyNone)
    /\ UNCHANGED <<onlyOneConnection, sharedDbManager, sqlPc, targetDatabaseType, pgHistory,
                   pending>>
    /\ UNCHANGED sqlFrame

\* sql(command, parser, row_count = ...), lines 571-613: up to the loop
SqlCall ==
    /\ sqlPc = "ready"
    /\ pgCalls < MaxPgCalls
    /\ Len(SelectSeq(pgHistory, LAMBDA e : e.fn = "sql")) < MaxSqlCalls
    /\ pgCalls' = pgCalls + 1
    /\ \E command \in SqlCommands, parser \in SqlParsers, row_count \in SqlRowCounts :
        LET use      == ChooseDbManager
            made     == getDbManager(returnAsSybase)
            cmds     == CommandList(command)
            psrs     == ParserList(parser, Len(cmds))
            rowCount == RowCountList(RowCountKw(row_count), Len(cmds))
            check    == IF rowCount.kind = "raise" THEN rowCount
                        ELSE CountCheck(cmds, psrs, rowCount.value)
        IN  /\ sqlArgs' = [command |-> command, parser |-> parser, row_count |-> row_count]
            /\ sqlLog' = <<>>
            /\ IF use.constructed /\ made.kind = "raise"
               THEN /\ sqlOut' = made
                    /\ sqlPc' = "ready"
                    /\ sqlLocals' = NoLocals
                    /\ pgHistory' = Append(pgHistory,
                          [fn |-> "sql", onlyOne |-> onlyOneConnection, dbm |-> 0,
                           constructed |-> FALSE, shared |-> sharedDbManager])
                    /\ UNCHANGED <<managers, sharedDbManager>>
               ELSE /\ managers' = IF use.constructed THEN Append(managers, made.value)
                                   ELSE managers
                    /\ sharedDbManager' = IF onlyOneConnection THEN use.dbm
                                          ELSE sharedDbManager
                    /\ pgHistory' = Append(pgHistory,
                          [fn |-> "sql", onlyOne |-> onlyOneConnection, dbm |-> use.dbm,
                           constructed |-> use.constructed,
                           shared |-> IF onlyOneConnection THEN use.dbm ELSE sharedDbManager])
                    /\ sqlLocals' =
                          [dbm |-> use.dbm, command |-> cmds, parser |-> psrs,
                           rowCount |-> IF rowCount.kind = "raise" THEN PyNone
                                        ELSE rowCount.value,
                           singleCommand |-> command.py # "list",
                           autoParser |-> parser = PyStr(<<"a","u","t","o">>),
                           i |-> 0, resultSets |-> <<>>, results |-> PyNone]
                    /\ sqlOut' = IF check.kind = "raise" THEN check ELSE Return(PyNone)
                    /\ sqlPc' = IF check.kind = "raise" THEN "ready" ELSE "loop"
    /\ UNCHANGED <<onlyOneConnection, returnAsSybase, conns, calls, targetDatabaseType, pending>>
    /\ UNCHANGED <<gcVars, trVars, rowVars, statsVars>>

\* one round of the loop of sql, lines 614-642
SqlStep ==
    /\ sqlPc = "loop"
    /\ sqlLocals.i < Len(sqlLocals.command)
    /\ \E acq \in SqlAcquisitions, out \in CursorOutcomes :
        LET i   == sqlLocals.i + 1
            raw == sqlLocals.command[i]
            psr == sqlLocals.parser[i]
            cmd == HandedToExecute(raw, sqlLocals.rowCount, i)
            mgr == managers[sqlLocals.dbm]
            r   == execute(mgr, cmd, acq, Len(conns) + 1, out)
            ran == [ev |-> "execute", i |-> i, raw |-> raw, cmd |-> cmd, arg |-> PyNone]
            fed == IF r.result.kind = "return" /\ psr.py # "None" /\ psr # PyStr(<<"a","u","t","o">>)
                   THEN LET rows == Iterate(r.result.value)
                        IN  [k \in DOMAIN rows |->
                                [ev |-> "callback", i |-> i, raw |-> raw, cmd |-> cmd,
                                 arg |-> rows[k]]]
                   ELSE <<>>
        IN  \* the outcome of an acquisition matters only when one is made
            /\ (NeedsConnection(mgr) \/ acq = "connected")
            \* a statement that is not run has no cursor outcome
            /\ (r.conn # 0 \/ out = CHOOSE o \in CursorOutcomes : o.raises)
            /\ managers' = [managers EXCEPT ![sqlLocals.dbm] = r.mgr]
            /\ conns' = AfterIssued(IF r.acquired
                                    THEN Append(conns, [owner |-> sqlLocals.dbm, open |-> TRUE])
                                    ELSE conns, r.conn, r.issued)
            /\ sqlLog' = sqlLog \o <<ran>> \o fed
            \* a rollback leaves nothing to commit on the connection
            /\ pending' = IF r.conn # 0 /\ r.result.kind = "return"
                          THEN pending \cup {r.conn}
                          ELSE pending \ {r.conn}
            /\ IF r.result.kind = "raise"
               THEN /\ sqlOut' = r.result
                    /\ sqlPc' = "ready"
                    /\ UNCHANGED sqlLocals
               ELSE /\ sqlLocals' =
                          [sqlLocals EXCEPT
                             !.i = i,
                             !.results = r.result.value,
                             !.resultSets = IF psr = PyStr(<<"a","u","t","o">>)
                                            THEN Append(@, r.result.value) ELSE @]
                    /\ UNCHANGED <<sqlOut, sqlPc>>
    /\ UNCHANGED <<onlyOneConnection, sharedDbManager, returnAsSybase, sqlArgs, pgCalls, calls,
                   targetDatabaseType, pgHistory>>
    /\ UNCHANGED <<gcVars, trVars, rowVars, statsVars>>

\* the end of sql, lines 644-649
SqlReturn ==
    /\ sqlPc = "loop"
    /\ sqlLocals.i = Len(sqlLocals.command)
    /\ sqlOut' = IF ~sqlLocals.autoParser THEN Return(PyNone)
                 ELSE IF sqlLocals.singleCommand THEN Return(sqlLocals.results)
                 ELSE Return(PyList(sqlLocals.resultSets))
    /\ sqlPc' = "ready"
    /\ UNCHANGED <<onlyOneConnection, sharedDbManager, returnAsSybase, sqlArgs, sqlLocals,
                   sqlLog, pgCalls, targetDatabaseType, pgHistory, pending>>
    /\ UNCHANGED sqlFrame

\* commit(), lines 735-738
PgCommit ==
    /\ sqlPc = "ready"
    /\ pgCalls < MaxPgCalls
    /\ pgCalls' = pgCalls + 1
    /\ sqlArgs' = NoArgs
    /\ sqlLocals' = NoLocals
    /\ sqlOut' = Return(PyNone)
    /\ IF sharedDbManager # 0
       THEN LET r == commit(managers[sharedDbManager])
            IN  /\ managers' = [managers EXCEPT ![sharedDbManager] = r.mgr]
                /\ conns' = AfterIssued(conns, r.conn, r.issued)
                /\ sqlLog' = [k \in DOMAIN r.issued |->
                                 [ev |-> r.issued[k], i |-> r.conn, raw |-> <<>>,
                                  cmd |-> <<>>, arg |-> PyNone]]
                /\ pending' = IF r.issued # <<>> THEN pending \ {r.conn} ELSE pending
       ELSE /\ sqlLog' = <<>>
            /\ UNCHANGED <<managers, conns, pending>>
    /\ UNCHANGED <<onlyOneConnection, sharedDbManager, returnAsSybase, sqlPc, calls,
                   targetDatabaseType, pgHistory>>
    /\ UNCHANGED <<gcVars, trVars, rowVars, statsVars>>

\* executeCopyFrom(file, table), lines 364-386
PgExecuteCopyFrom ==
    /\ sqlPc = "ready"
    /\ pgCalls < MaxPgCalls
    /\ pgCalls' = pgCalls + 1
    /\ sqlArgs' = NoArgs
    /\ sqlLocals' = NoLocals
    /\ \E copied \in BOOLEAN :
        LET use  == ChooseDbManager
            made == getDbManager(returnAsSybase)
        IN  IF use.constructed /\ made.kind = "raise"
            THEN /\ sqlOut' = made
                 /\ sqlLog' = <<>>
                 /\ pgHistory' = Append(pgHistory,
                       [fn |-> "executeCopyFrom", onlyOne |-> onlyOneConnection, dbm |-> 0,
                        constructed |-> FALSE, shared |-> sharedDbManager])
                 /\ UNCHANGED <<managers, sharedDbManager, pending>>
            ELSE LET mgr == IF use.constructed THEN made.value ELSE managers[use.dbm]
                     r   == executeCopyFrom(mgr, copied)
                 IN  \* a copy that is not started has no outcome
                     /\ (r.conn # 0 \/ copied)
                     /\ managers' = IF use.constructed THEN Append(managers, mgr)
                                     ELSE managers
                     /\ sharedDbManager' = IF onlyOneConnection THEN use.dbm
                                           ELSE sharedDbManager
                     /\ pgHistory' = Append(pgHistory,
                           [fn |-> "executeCopyFrom", onlyOne |-> onlyOneConnection,
                            dbm |-> use.dbm, constructed |-> use.constructed,
                            shared |-> IF onlyOneConnection THEN use.dbm ELSE sharedDbManager])
                     /\ sqlLog' = [k \in DOMAIN r.issued |->
                                      [ev |-> r.issued[k], i |-> r.conn, raw |-> <<>>,
                                       cmd |-> <<>>, arg |-> PyNone]]
                     /\ sqlOut' = r.result
                     /\ pending' = IF r.conn # 0 /\ r.result.kind = "return"
                                   THEN pending \cup {r.conn}
                                   ELSE pending \ {r.conn}
    /\ UNCHANGED <<onlyOneConnection, returnAsSybase, sqlPc, conns, calls, targetDatabaseType>>
    /\ UNCHANGED <<gcVars, trVars, rowVars, statsVars>>

\* the types given to set_targetDatabaseType
TargetTypes == { <<"p","o","s","t","g","r","e","s">>, <<"M","y","S","Q","L">>, <<"o","r","a","c","l","e">> }

\* set_targetDatabaseType(t), lines 514-519: the global is assigned before
\* the type is looked at
PgSetTargetDatabaseType ==
    /\ sqlPc = "ready"
    /\ pgCalls < MaxPgCalls
    /\ pgCalls' = pgCalls + 1
    /\ \E t \in TargetTypes :
        /\ targetDatabaseType' = Lower(t)
        /\ sqlOut' = IF Lower(t) \notin { <<"p","o","s","t","g","r","e","s">>, <<"m","y","s","q","l">> }
                     THEN Raise(PgError("Unknown targetDatabaseType: %s"))
                     ELSE Return(PyNone)
    /\ sqlArgs' = NoArgs
    /\ sqlLocals' = NoLocals
    /\ sqlLog' = <<>>
    /\ UNCHANGED <<onlyOneConnection, sharedDbManager, returnAsSybase, sqlPc, pgHistory, pending>>
    /\ UNCHANGED sqlFrame

SqlNext ==
    \/ PgUseOneConnection
    \/ PgSetReturnAsSybase
    \/ PgSetTargetDatabaseType
    \/ SqlCall
    \/ SqlStep
    \/ SqlReturn
    \/ PgExecuteCopyFrom
    \/ PgCommit

SpecSql == SqlInit /\ [][SqlNext]_vars

-----------------------------------------------------------------------------
(* Claims about the batch runner *)

\* the dialect translation of a statement: the generic pass alone, or the
\* generic pass followed by the backend-specific pass
Translations(cmd) ==
    LET generic == translate(cmd)
    IN  IF generic.kind = "raise" THEN {}
        ELSE {generic.value, translate_be(generic.value).value}

\* C8: every statement text that sql hands to the statement executor is the
\* dialect translation (the generic pass, or the generic pass and then the
\* backend-specific pass) of the caller's statement with its row limit appended;
\* the caller's untranslated text is never executed.
C8_ExecutesTranslatedText ==
    \A k \in DOMAIN sqlLog :
        sqlLog[k].ev = "execute" =>
            sqlLog[k].cmd \in
                Translations(WithRowLimit(sqlLog[k].raw, sqlLocals.rowCount, sqlLog[k].i))


\* every statement of the call has the automatic parser
AutomaticParsers(parser) ==
    \/ parser = PyStr(<<"a","u","t","o">>)
    \/ /\ parser.py = "list"
       /\ \A k \in DOMAIN parser.items : parser.items[k] = PyStr(<<"a","u","t","o">>)

\* C20: with automatic result collection, sql called with a single statement
\* returns the one result set of that statement, not a list, and called with a
\* list of n statements returns a list of exactly n result sets, the i-th being
\* the result of the i-th statement; so it is whether the parser is given as
\* one value or as a list of automatic parsers, one for each statement.
C20_AutomaticResultsReturned ==
    ( /\ sqlPc = "ready"
      /\ sqlArgs # NoArgs
      /\ sqlLocals # NoLocals
      /\ sqlOut.kind = "return"
      /\ AutomaticParsers(sqlArgs.parser) ) =>
        /\ Len(sqlLocals.resultSets) = Len(sqlLocals.command)
        /\ IF sqlArgs.command.py = "list"
           THEN sqlOut.value = PyList(sqlLocals.resultSets)
           ELSE sqlOut.value = sqlLocals.results /\ sqlLocals.resultSets = <<sqlLocals.results>>

\* the row limit the caller supplied for statement i, 0 when there is none
SuppliedLimit(row_count, i) ==
    CASE row_count.py = "int" -> row_count.v
      [] row_count.py = "list" -> row_count.items[i].v
      [] OTHER -> 0

StatementCount(command) == IF command.py = "list" THEN Len(command.items) ELSE 1

\* the call gives a list of callbacks, or of row limits, that has not one item
\* for each statement
MismatchedCounts(args) ==
    \/ args.parser.py = "list" /\ Len(args.parser.items) # StatementCount(args.command)
    \/ /\ args.row_count.py \notin {"absent", "None"}
       /\ IF args.row_count.py = "list"
          THEN Len(args.row_count.items) # StatementCount(args.command)
          ELSE FALSE

\* C22: sql fails with a mismatched-count error whenever the number of
\* statements differs from the number of callbacks given for them or, when row
\* limits are given, from the number of row limits; the check is made before
\* any statement is executed, so on a mismatch no statement reaches the
\* executor.
C22_MismatchedCountsRejected ==
    (sqlArgs # NoArgs /\ MismatchedCounts(sqlArgs)) =>
        /\ sqlPc = "ready"
        /\ sqlOut.kind = "raise"
        /\ sqlOut.err.exc = "pg_db.error"
        /\ \A k \in DOMAIN sqlLog : sqlLog[k].ev # "execute"

\* the rows of what execute returned: none for the no-result sentinel
RowsOf(results) ==
    CASE results.py = "list" -> results.items
      [] results.py = "tuple" /\ results.second.py = "list" -> results.second.items
      [] OTHER -> <<>>

\* the callback calls made for statement i, in order
CallbacksFor(i) == SelectSeq(sqlLog, LAMBDA e : e.ev = "callback" /\ e.i = i)

\* C23: for a statement that the caller gave a callback instead of automatic
\* collection, sql calls the callback exactly once for each row the statement
\* returned, in row order, with that row as argument, and not at all for a
\* statement that returned no rows or the no-result sentinel; no result set is
\* collected for it.
C23_CallbackOncePerRow ==
    ( /\ sqlLocals # NoLocals
      /\ sqlOut.kind = "return"
      /\ sqlLocals.i >= 1
      /\ sqlLocals.parser[sqlLocals.i].py = "function" ) =>
        /\ Len(CallbacksFor(sqlLocals.i)) = Len(RowsOf(sqlLocals.results))
        /\ \A k \in DOMAIN CallbacksFor(sqlLocals.i) :
              CallbacksFor(sqlLocals.i)[k].arg = RowsOf(sqlLocals.results)[k]
        /\ Len(sqlLocals.resultSets)
              = Cardinality({k \in 1..sqlLocals.i : sqlLocals.parser[k] = PyStr(<<"a","u","t","o">>)})

\* the statements of the call, in the caller's order
StatementsOf(args) == IF args.command.py = "list" THEN args.command.items ELSE <<args.command.s>>

\* what the call handed to the executor so far, in order
Executed == SelectSeq(sqlLog, LAMBDA e : e.ev = "execute")

\* C24: sql executes the statements of a list strictly in list order and each
\* at most once; when the execution of statement i fails, the error goes to the
\* caller, statement i is not tried again and no statement after i is executed.
C24_InOrderOnceNoRetry ==
    sqlLocals # NoLocals =>
        /\ Len(Executed) <= Len(StatementsOf(sqlArgs))
        /\ \A k \in DOMAIN Executed :
              /\ Executed[k].i = k
              /\ Executed[k].raw = StatementsOf(sqlArgs)[k]
        /\ sqlOut.kind = "raise" =>
              /\ sqlPc = "ready"
              /\ Len(Executed) > 0 =>
                    /\ Len(Executed) = sqlLocals.i + 1
                    /\ sqlOut.err.exc = "DbManagerError"
        /\ sqlOut.kind = "return" => Len(Executed) = sqlLocals.i

\* the first of two statements has failed: the call is over with the error and
\* the second statement was not executed
C24_Witness ==
    /\ sqlPc = "ready"
    /\ sqlArgs.command = PyList(<<SqlUpdate, SqlSelect>>)
    /\ sqlOut.kind = "raise"
    /\ Len(Executed) = 1
    /\ Executed[1].raw = SqlUpdate
    /\ sqlLocals.i = 0

\* the shared manager before the k-th call of the history: none at the first
SharedBefore(k) == IF k = 1 THEN 0 ELSE pgHistory[k - 1].shared

\* C25: while single-connection mode is enabled, the sql and executeCopyFrom
\* calls construct at most one manager between them and each of them uses that
\* one, also after the mode was switched off and on again; while the mode is
\* disabled, each call that gets a manager constructs one that no earlier call
\* used, and the shared manager stays the one it was.
C25_OneSharedManager ==
    /\ \A k \in DOMAIN pgHistory :
          LET e == pgHistory[k]
          IN  /\ (e.onlyOne /\ e.dbm # 0) =>
                    /\ e.shared = e.dbm
                    /\ e.constructed <=> SharedBefore(k) = 0
                    /\ SharedBefore(k) # 0 => e.dbm = SharedBefore(k)
              /\ (~e.onlyOne /\ e.dbm # 0) =>
                    /\ e.constructed
                    /\ e.shared = SharedBefore(k)
                    /\ \A j \in 1..(k - 1) : pgHistory[j].dbm # e.dbm
              /\ e.dbm = 0 => e.shared = SharedBefore(k)
    /\ Len(SelectSeq(pgHistory, LAMBDA e : e.onlyOne /\ e.constructed)) <= 1
    /\ pgHistory # <<>> => pgHistory[Len(pgHistory)].shared = sharedDbManager

\* a call in single-connection mode has constructed the shared manager, a call
\* with the mode switched off has constructed its own, and a call with the mode
\* switched on again has used the shared one
C25_Witness ==
    /\ Len(pgHistory) = 3
    /\ pgHistory[1].onlyOne /\ pgHistory[1].constructed /\ pgHistory[1].dbm = 1
    /\ ~pgHistory[2].onlyOne /\ pgHistory[2].constructed /\ pgHistory[2].dbm = 2
    /\ pgHistory[2].shared = 1
    /\ pgHistory[3].onlyOne /\ ~pgHistory[3].constructed /\ pgHistory[3].dbm = 1
    /\ pgHistory[1].fn = "sql"
    /\ pgHistory[3].fn = "executeCopyFrom"
    /\ sharedDbManager = 1

\* C29: a call of commit issues a commit on every connection on which a
\* statement was executed since the last commit of that connection, with
\* single-connection mode enabled or disabled: after the call no connection
\* is left with an executed statement that the commit has not reached.
C29_CommitReachesEveryConnection == [][PgCommit => pending' = {}]_vars

\* the commit reaches the shared connection: with every call so far made in
\* single-connection mode, no connection is left behind
C29_SingleModeCommitReaches ==
    [][(PgCommit /\ \A k \in DOMAIN pgHistory : pgHistory[k].onlyOne) => pending' = {}]_vars

\* C30: in every reachable state the global targetDatabaseType is 'postgres'
\* or 'mysql': a set_targetDatabaseType call with an unknown type raises and
\* leaves the type as it was, so that the construction of a manager always
\* finds a known type.
C30_TargetTypeKnown == targetDatabaseType \in { <<"p","o","s","t","g","r","e","s">>, <<"m","y","s","q","l">> }

-----------------------------------------------------------------------------
(* Row projections: class MGIDict, dbManager.py 322-368 *)

MaxLookups == 2

\* line 368: the error of resolve; the keys are kept as a set, without the
\* order in which list() gives them
UnknownKey(key, myDict) ==
    [exc |-> "DbManagerError", msg |-> "Unknown key (%s) from: %s",
     key |-> key, keys |-> DOMAIN myDict]

\* resolve with lines 365-366, the legacy alias, left out
RECURSIVE resolveWithoutAlias(_, _)
resolveWithoutAlias(myDict, key) ==
    IF key \in DOMAIN myDict
    THEN Return(key)
    ELSE IF Lower(key) \in DOMAIN myDict
         THEN Return(Lower(key))
         ELSE Raise(UnknownKey(key, myDict))

\* lines 357-368: MGIDict.resolve
RECURSIVE resolve(_, _)
resolve(myDict, key) ==
    IF key \in DOMAIN myDict
    THEN Return(key)
    ELSE IF Lower(key) \in DOMAIN myDict
         THEN Return(Lower(key))
         ELSE IF Lower(key) = <<"o","f","f","s","e","t">>
              THEN resolve(myDict, <<"c","m","O","f","f","s","e","t">>)
              ELSE Raise(UnknownKey(key, myDict))

\* lines 341-342: MGIDict.__getitem__
getitem(d, key) ==
    LET Value(r) == IF r.kind = "raise" THEN r ELSE Return(d.myDict[r.value])
    IN  Value(resolve(d.myDict, key))

\* lines 334-339: MGIDict.has_key; the bare except makes every error False
has_key(d, key) == Return(resolve(d.myDict, key).kind # "raise")

\* the column lists of the statements whose rows are looked at
RowColumns ==
    { <<ColName, ColValue>>,
      <<<<"n","a","m","e">>, <<"v","a","l","u","e">>>>,
      <<<<"c","m","O","f","f","s","e","t">>, <<"n","a","m","e">>>>,
      <<<<"c","m","o","f","f","s","e","t">>, <<"N","a","m","e">>>>,
      <<<<"o","f","f","s","e","t">>, <<"c","m","O","f","f","s","e","t">>>> }

\* the one row of each statement
RowValues == <<StrValue("kit"), IntValue("1")>>

\* the keys asked for
RowKeys ==
    { <<"n","a","m","e">>, <<"N","A","M","E">>, <<"N","a","m","e">>, <<"o","f","f","s","e","t">>, <<"O","f","f","s","e","t">>, <<"c","m","O","f","f","s","e","t">>, <<"s","y","m","b","o","l">> }

RowInit ==
    /\ mgiRow \in {asMGI(columns, <<RowValues>>)[1] : columns \in RowColumns}
    /\ rowLog = <<>>
    /\ GcIdle
    /\ DbmIdle
    /\ TrIdle
    /\ SqlIdle
    /\ StatsIdle

\* row[key]
RowGetItem ==
    /\ Len(rowLog) < MaxLookups
    /\ \E key \in RowKeys :
        rowLog' = Append(rowLog, [op |-> "getitem", key |-> key, out |-> getitem(mgiRow, key)])
    /\ UNCHANGED mgiRow
    /\ UNCHANGED rowFrame

\* row.has_key(key)
RowHasKey ==
    /\ Len(rowLog) < MaxLookups
    /\ \E key \in RowKeys :
        rowLog' = Append(rowLog, [op |-> "has_key", key |-> key, out |-> has_key(mgiRow, key)])
    /\ UNCHANGED mgiRow
    /\ UNCHANGED rowFrame

RowNext == RowGetItem \/ RowHasKey

SpecRow == RowInit /\ [][RowNext]_vars

-----------------------------------------------------------------------------
(* Claims about row projections *)

\* the columns of the row whose name is the key in some letter case
ColumnsNamed(d, key) == {c \in DOMAIN d.myDict : Lower(c) = Lower(key)}

\* C18: on a row projection that result shaping built from a column list with
\* upper-case letters in its names (such as Name, Value), a lookup with any
\* letter case of a column name (name, NAME, Name) succeeds, and every letter
\* case gives the same value, the value of that column.
C18_LookupInAnyLetterCase ==
    \A i \in DOMAIN rowLog :
        (rowLog[i].op = "getitem" /\ Cardinality(ColumnsNamed(mgiRow, rowLog[i].key)) = 1) =>
            \A c \in ColumnsNamed(mgiRow, rowLog[i].key) :
                rowLog[i].out = Return(mgiRow.myDict[c])

\* the row has no entry that a lookup of 'offset' finds before the alias
NoOffsetEntry(d) ==
    /\ <<"o","f","f","s","e","t">> \notin DOMAIN d.myDict
    /\ <<"O","f","f","s","e","t">> \notin DOMAIN d.myDict

\* the key names no entry, as written, in lower case or through the alias
MatchesNoEntry(d, key) ==
    /\ key \notin DOMAIN d.myDict
    /\ Lower(key) \notin DOMAIN d.myDict
    /\ Lower(key) = <<"o","f","f","s","e","t">> =>
          /\ <<"c","m","O","f","f","s","e","t">> \notin DOMAIN d.myDict
          /\ <<"c","m","o","f","f","s","e","t">> \notin DOMAIN d.myDict

\* C19: on a row projection with no entry named offset, a lookup of offset
\* gives the value stored under cmOffset when there is such an entry; a lookup
\* whose key names no entry, as written, in lower case or through the alias,
\* raises an unknown-key error that lists the keys of the row; has_key gives
\* true exactly for the keys on which a lookup succeeds and never raises.
C19_AliasUnknownKeyAndHasKey ==
    \A i \in DOMAIN rowLog :
        LET key == rowLog[i].key
            out == rowLog[i].out
        IN  /\ ( /\ rowLog[i].op = "getitem"
                 /\ Lower(key) = <<"o","f","f","s","e","t">>
                 /\ NoOffsetEntry(mgiRow)
                 /\ <<"c","m","O","f","f","s","e","t">> \in DOMAIN mgiRow.myDict ) =>
                    out = Return(mgiRow.myDict[<<"c","m","O","f","f","s","e","t">>])
            /\ (rowLog[i].op = "getitem" /\ MatchesNoEntry(mgiRow, key)) =>
                    /\ out.kind = "raise"
                    /\ out.err.exc = "DbManagerError"
                    /\ out.err.keys = DOMAIN mgiRow.myDict
            /\ (rowLog[i].op = "getitem" /\ ~MatchesNoEntry(mgiRow, key)) =>
                    out.kind = "return"
            /\ rowLog[i].op = "has_key" =>
                    /\ out.kind = "return"
                    /\ out.value = (getitem(mgiRow, key).kind = "return")

\* offset has been looked up through the alias, and an unknown key has been
\* asked for with has_key
C19_Witness ==
    /\ NoOffsetEntry(mgiRow)
    /\ <<"c","m","O","f","f","s","e","t">> \in DOMAIN mgiRow.myDict
    /\ Len(rowLog) = 2
    /\ rowLog[1].op = "getitem"
    /\ rowLog[1].key = <<"o","f","f","s","e","t">>
    /\ rowLog[1].out = Return(mgiRow.myDict[<<"c","m","O","f","f","s","e","t">>])
    /\ rowLog[2].op = "has_key"
    /\ rowLog[2].key = <<"s","y","m","b","o","l">>
    /\ rowLog[2].out = Return(FALSE)

-----------------------------------------------------------------------------
(* Measuring the statistics: stats_pg.py *)

\* how many abbreviations getAllAbbrev returns at most
MaxStats == 2

\* line 59 with the descriptive value of the raise
StatsError(msg) == [exc |-> "stats_pg.error", msg |-> msg]

TypeError(what) == [exc |-> "TypeError", msg |-> what]

\* a float measured by a query: the digits before and after the point
PyFloat(whole, frac) == [py |-> "float", whole |-> whole, frac |-> frac]

\* what the database does for a statement given to SQL: it raises, or it
\* gives rows; "unused" where the statement is not reached
DbRaises == [t |-> "raise", rows |-> <<>>]

DbRows(rows) == [t |-> "rows", rows |-> rows]

Unused == [t |-> "unused", rows |-> <<>>]

\* lines 67-89: the wrapper over the SQL function; every exception of the
\* function becomes ERROR
statsSql(db) ==
    IF db.t = "raise"
    THEN Raise(StatsError(<<"Q","u","e","r","y"," ","f","a","i","l","e","d",":"," ","%","s"," ","-","-"," ","E","x","c","e","p","t","i","o","n",":"," ","%","s"," ","-","-"," ","V","a","l","u","e",":"," ","%","s">>))
    ELSE Return(db.rows)

\* lines 186-218: Statistic(abbrev); a row of MGI_Statistic is given by its
\* hasIntValue column
Statistic(db) ==
    LET Made(results) ==
            IF results.kind = "raise" THEN results
            ELSE IF Len(results.value) < 1
            THEN Raise(StatsError(<<"U","n","k","n","o","w","n"," ","s","t","a","t","i","s","t","i","c",":"," ","%","s">>))
            ELSE Return([hasInt |-> results.value[1]])
    IN  Made(statsSql(db))

\* lines 340-361: Statistic.getSql; the rows are the chunks
getSql(db) ==
    LET Joined(results) ==
            IF results.kind = "raise" THEN results
            ELSE IF results.value = <<>> THEN Return(PyNone)
            ELSE Return(PyStr(Concat(results.value)))
    IN  Joined(statsSql(db))

\* '%d' % value
FormatD(value) ==
    CASE value.py = "int" -> Return(IntToText(value.v))
      [] value.py = "float" -> Return(IntToText(value.whole))
      [] OTHER -> Raise(TypeError("%d format: a number is required"))

\* '%1.5f' % value
FormatF(value) ==
    CASE value.py = "int" -> Return(IntToText(value.v) \o <<".","0","0","0","0","0">>)
      [] value.py = "float" ->
            Return(IntToText(value.whole) \o <<".">> \o value.frac
                      \o [k \in 1..(5 - Len(value.frac)) |-> "0"])
      [] OTHER -> Raise(TypeError("float argument required"))

\* lines 975-981: recordMeasurement, where the database does db for the
\* statement; the result names the statement sent (none when the formatting
\* raised) and how the call ended
recordMeasurement(abbrev, intValue, floatValue, db) ==
    LET Sent(number, text) ==
            IF number.kind = "raise"
            THEN [sent |-> <<>>, result |-> number]
            ELSE [sent |-> <<text \o number.value>>,
                  result |-> IF statsSql(db).kind = "raise" THEN statsSql(db)
                             ELSE Return(PyNone)]
    IN  IF intValue # PyNone
        THEN Sent(FormatD(intValue), <<"e","x","e","c"," ","M","G","I","_","r","e","c","o","r","d","M","e","a","s","u","r","e","m","e","n","t"," ","\"">> \o abbrev \o <<"\"",","," ">>)
        ELSE Sent(FormatF(floatValue),
                  <<"e","x","e","c"," ","M","G","I","_","r","e","c","o","r","d","M","e","a","s","u","r","e","m","e","n","t"," ","\"">> \o abbrev \o <<"\"",","," ","n","u","l","l",","," ">>)

\* the try of lines 1004-1018 with a failure of recordMeasurement not caught
\* into the list
tryBodyRecordUnreported(abbrev, e) ==
    LET Measured(stat, value) ==
            LET call == IF Truthy(stat.hasInt)
                        THEN [abbrev |-> abbrev, intValue |-> value, floatValue |-> PyNone]
                        ELSE [abbrev |-> abbrev, intValue |-> PyNone, floatValue |-> value]
            IN  [failed |-> FALSE,
                 recorded |-> <<[call |-> call,
                                 sent |-> recordMeasurement(abbrev, call.intValue,
                                                            call.floatValue, e.record).sent]>>]
        Queried(stat, results) ==
            IF results.kind = "raise" THEN [failed |-> TRUE, recorded |-> <<>>]
            ELSE IF results.value = <<>> THEN [failed |-> FALSE, recorded |-> <<>>]
            ELSE Measured(stat, results.value[1])
        WithSql(stat, cmd) ==
            IF cmd.kind = "raise" THEN [failed |-> TRUE, recorded |-> <<>>]
            ELSE IF ~Truthy(cmd.value) THEN [failed |-> FALSE, recorded |-> <<>>]
            ELSE Queried(stat, statsSql(e.query))
        WithStat(stat) ==
            IF stat.kind = "raise" THEN [failed |-> TRUE, recorded |-> <<>>]
            ELSE WithSql(stat.value, getSql(e.sql))
    IN  WithStat(Statistic(e.stat))

\* lines 1003-1020: the try of the loop for one abbreviation, where the
\* database does e.stat, e.sql, e.query and e.record for the four statements.
\* The result tells whether the except clause was reached, and the
\* recordMeasurement calls made
tryBody(abbrev, e) ==
    LET Measured(stat, value) ==
            LET call == IF Truthy(stat.hasInt)
                        THEN [abbrev |-> abbrev, intValue |-> value, floatValue |-> PyNone]
                        ELSE [abbrev |-> abbrev, intValue |-> PyNone, floatValue |-> value]
                Done(r) == [failed |-> r.result.kind = "raise",
                            recorded |-> <<[call |-> call, sent |-> r.sent]>>]
            IN  Done(recordMeasurement(abbrev, call.intValue, call.floatValue, e.record))
        Queried(stat, results) ==
            IF results.kind = "raise" THEN [failed |-> TRUE, recorded |-> <<>>]
            ELSE IF results.value = <<>> THEN [failed |-> FALSE, recorded |-> <<>>]
            ELSE Measured(stat, results.value[1])
        WithSql(stat, cmd) ==
            IF cmd.kind = "raise" THEN [failed |-> TRUE, recorded |-> <<>>]
            ELSE IF ~Truthy(cmd.value) THEN [failed |-> FALSE, recorded |-> <<>>]
            ELSE Queried(stat, statsSql(e.query))
        WithStat(stat) ==
            IF stat.kind = "raise" THEN [failed |-> TRUE, recorded |-> <<>>]
            ELSE WithSql(stat.value, getSql(e.sql))
    IN  WithStat(Statistic(e.stat))

\* ', '.join(names)
RECURSIVE JoinComma(_)
JoinComma(names) ==
    IF names = <<>> THEN <<>>
    ELSE IF Len(names) = 1 THEN names[1]
    ELSE names[1] \o <<","," ">> \o JoinComma(Tail(names))

\* the abbreviations of the statistics in the database
AbbrevPool == { <<"a","l","l","e","l","e","s">>, <<"m","a","r","k","e","r","s">>, <<"s","t","r","a","i","n","s">> }

\* what getAllAbbrev can return: abbreviations are unique
AbbrevLists ==
    UNION { {s \in [1..n -> AbbrevPool] : \A i, j \in 1..n : i # j => s[i] # s[j]}
               : n \in 0..MaxStats }

\* what the database does for the four statements of one abbreviation: the
\* row of MGI_Statistic (its hasIntValue), the chunks of MGI_StatisticSql, the
\* row of the stored query (its first field), and the exec of the procedure
StatRows == {DbRaises, DbRows(<<>>), DbRows(<<PyInt(1)>>), DbRows(<<PyInt(0)>>)}

SqlRows ==
    {DbRaises, DbRows(<<>>), DbRows(<< <<>> >>),
     DbRows(<< <<"s","e","l","e","c","t"," ","c","o","u","n","t","(","1",")"," ">>, <<"f","r","o","m"," ","m">> >>)}

QueryRows ==
    {DbRaises, DbRows(<<>>), DbRows(<<PyInt(5)>>), DbRows(<<PyFloat(2, <<"5">>)>>),
     DbRows(<<PyNone>>)}

RecordRows == {DbRaises, DbRows(<<>>)}

\* the statements reached: a statement that is not reached has no outcome
Reached(e) ==
    LET stat == Statistic(e.stat)
        cmd  == getSql(e.sql)
    IN  /\ (e.sql = Unused) <=> (stat.kind = "raise")
        /\ (e.query = Unused) <=>
              (e.sql = Unused \/ cmd.kind = "raise" \/ ~Truthy(cmd.value))
        /\ (e.record = Unused) <=>
              \/ e.query = Unused
              \/ e.query.rows = <<>>
              \/ tryBody(<<>>, [e EXCEPT !.record = DbRows(<<>>)]).recorded[1].sent = <<>>

StatsEnv ==
    {e \in [stat : StatRows, sql : SqlRows \cup {Unused}, query : QueryRows \cup {Unused},
            record : RecordRows \cup {Unused}] : Reached(e)}

StatsInit ==
    /\ statsPc = "ready"
    /\ abbreviations = <<>>
    /\ statsI = 0
    /\ failedAbbrev = <<>>
    /\ statsLog = <<>>
    /\ statsOut = Return(PyNone)
    /\ GcIdle
    /\ DbmIdle
    /\ TrIdle
    /\ SqlIdle
    /\ RowIdle

\* lines 995-997: the call, up to the list that getAllAbbrev (825-840) gives;
\* an error of getAllAbbrev ends the call
StatsCall ==
    /\ statsPc = "ready"
    /\ \/ /\ statsPc' = "done"
          /\ statsOut' = statsSql(DbRaises)
          /\ UNCHANGED abbreviations
       \/ \E got \in AbbrevLists :
             /\ abbreviations' = got
             /\ statsPc' = "loop"
             /\ UNCHANGED statsOut
    /\ UNCHANGED <<statsI, failedAbbrev, statsLog>>
    /\ UNCHANGED statsFrame

\* lines 997-1020: one turn of the loop
StatsLoop ==
    /\ statsPc = "loop"
    /\ statsI < Len(abbreviations)
    /\ \E e \in StatsEnv :
        LET Turn(abbrev, r) ==
                /\ failedAbbrev' = IF r.failed THEN Append(failedAbbrev, abbrev)
                                   ELSE failedAbbrev
                /\ statsLog' = Append(statsLog,
                      [abbrev |-> abbrev, db |-> e, recorded |-> r.recorded])
        IN  Turn(abbreviations[statsI + 1], tryBody(abbreviations[statsI + 1], e))
    /\ statsI' = statsI + 1
    /\ UNCHANGED <<statsPc, abbreviations, statsOut>>
    /\ UNCHANGED statsFrame

\* lines 1021-1024: after the loop
StatsReturn ==
    /\ statsPc = "loop"
    /\ statsI = Len(abbreviations)
    /\ statsPc' = "done"
    /\ statsOut' = IF failedAbbrev # <<>>
                   THEN Raise(StatsError(<<"F","a","i","l","e","d"," ","t","o"," ","a","d","d"," ","m","e","a","s","u","r","e","m","e","n","t","s"," ","f","o","r"," ","s","t","a","t","i","s","t","i","c","s",":"," ">>
                                            \o JoinComma(failedAbbrev)))
                   ELSE Return(PyNone)
    /\ UNCHANGED <<abbreviations, statsI, failedAbbrev, statsLog>>
    /\ UNCHANGED statsFrame

StatsNext == StatsCall \/ StatsLoop \/ StatsReturn

SpecStats == StatsInit /\ [][StatsNext]_vars

-----------------------------------------------------------------------------
(* Claims about measuring the statistics *)

\* the processing of the abbreviation of a log entry failed: the database
\* raised for one of its statements, the statistic is unknown, or the measured
\* value could not be written into the statement
ProcessingFailed(entry) ==
    \/ entry.db.stat.t = "raise" \/ entry.db.stat.rows = <<>>
    \/ entry.db.sql.t = "raise"
    \/ entry.db.query.t = "raise"
    \/ entry.db.record.t = "raise"
    \/ \E k \in DOMAIN entry.recorded : entry.recorded[k].sent = <<>>

\* the statistic of a log entry has stored SQL, and its query gave a row
MeasuredARow(entry) ==
    /\ entry.db.sql.t = "rows"
    /\ Concat(entry.db.sql.rows) # <<>>
    /\ entry.db.query.t = "rows"
    /\ entry.db.query.rows # <<>>

\* the abbreviations of the entries that failed, in the order of the log
FailedNames ==
    LET failed == SelectSeq(statsLog, ProcessingFailed)
    IN  [k \in DOMAIN failed |-> failed[k].abbrev]

\* C28: measureAllHavingSql takes the abbreviations that getAllAbbrev returned
\* one by one, in order, whatever failed before; it returns normally exactly
\* when the processing of none failed, and otherwise raises ERROR, after the
\* last one, with the failed abbreviations and no other in its value; a
\* statistic with stored SQL whose query gave a row gets exactly one
\* recordMeasurement call, one without stored SQL gets none.
C28_EveryStatisticMeasured ==
    /\ Len(statsLog) = statsI
    /\ \A k \in DOMAIN statsLog :
          /\ statsLog[k].abbrev = abbreviations[k]
          /\ MeasuredARow(statsLog[k]) =>
                /\ Len(statsLog[k].recorded) = 1
                /\ statsLog[k].recorded[1].call.abbrev = statsLog[k].abbrev
          /\ (statsLog[k].db.sql.t = "rows" /\ statsLog[k].db.sql.rows = <<>>) =>
                statsLog[k].recorded = <<>>
    /\ statsPc = "done" => statsI = Len(abbreviations)
    /\ (statsPc = "done" /\ statsOut.kind = "return") => FailedNames = <<>>
    /\ (statsPc = "done" /\ statsOut.kind = "raise") =>
          \/ /\ FailedNames # <<>>
             /\ statsOut.err =
                   StatsError(<<"F","a","i","l","e","d"," ","t","o"," ","a","d","d"," ","m","e","a","s","u","r","e","m","e","n","t","s"," ","f","o","r"," ","s","t","a","t","i","s","t","i","c","s",":"," ">>
                                 \o JoinComma(FailedNames))
          \* getAllAbbrev raised: there was no abbreviation to take
          \/ /\ statsLog = <<>>
             /\ statsOut = statsSql(DbRaises)

\* the processing of the first of two abbreviations failed, the second was
\* measured and recorded, and the call has raised ERROR naming the first only
C28_Witness ==
    /\ statsPc = "done"
    /\ Len(statsLog) = 2
    /\ ProcessingFailed(statsLog[1])
    /\ ~ProcessingFailed(statsLog[2])
    /\ MeasuredARow(statsLog[2])
    /\ Len(statsLog[2].recorded) = 1
    /\ statsLog[2].recorded[1].sent # <<>>
    /\ statsOut = Raise(StatsError(<<"F","a","i","l","e","d"," ","t","o"," ","a","d","d"," ","m","e","a","s","u","r","e","m","e","n","t","s"," ","f","o","r"," ","s","t","a","t","i","s","t","i","c","s",":"," ">>
                                      \o statsLog[1].abbrev))
====
